---- MODULE Spec2Model ----
(***************************************************************************)
(* A model of the context-resolution core of `be` (src/be/lib.py,          *)
(* src/be/_extern.py, src/be/cli.py).                                      *)
(*                                                                         *)
(* Python strings are sequences of one-character strings, so that the      *)
(* regular expressions, str.strip, int(), sorted() and str.format of the   *)
(* source are computed character by character.  A Python dict is a         *)
(* sequence of <<key, value>> pairs with distinct keys; the order of the   *)
(* sequence is the dict's iteration order, which Python 2 leaves           *)
(* unspecified and which the initial states therefore choose freely.       *)
(***************************************************************************)
EXTENDS Integers, Sequences, FiniteSets, TLC

VARIABLES
    pc,         \* position of the operation under way
    key,        \* be.yaml templates.key, the key selector
    topics,     \* arguments to `in`
    inventory,  \* inventory.yaml: dict binding -> list of items
    loaded,     \* templates.yaml as read from disk, before resolution
    templates,  \* the template set in use: dict binding -> pattern
    context,    \* the be context: dict of environment variables
    item,       \* item argument of binding_from_item / pos_development_directory
    bindings,   \* lib.self.bindings, the item -> binding memo cache
    result,     \* outcome of the last call: return, raise or sys.exit
    echoed,     \* lines written by lib.echo during the last call
    environ,    \* os.environ of the be process
    be,         \* be.yaml
    opts,       \* options of `in`: yes, enter, as_
    fs,         \* the host: os.name and the directories that exist
    frame,      \* local variables of in_
    launched    \* the subshell: whether it was started, and its environment

\* the state only the `in` command uses
cli == <<environ, be, opts, fs, frame, launched>>

vars == <<pc, key, topics, inventory, loaded, templates, context, item,
          bindings, result, echoed, cli>>

-----------------------------------------------------------------------------
(* Exit codes, src/be/lib.py *)

NORMAL == 0
PROGRAM_ERROR == 1
USER_ERROR == 2
PROJECT_ERROR == 3
TEMPLATE_ERROR == 4

\* topic and template syntaxes
FIXED == 1
POSITIONAL == 2

-----------------------------------------------------------------------------
(* Characters and strings *)

Digits == <<"0", "1", "2", "3", "4", "5", "6", "7", "8", "9">>

Lower == {"a", "b", "c", "d", "e", "f", "g", "h", "i", "j", "k", "l", "m",
          "n", "o", "p", "q", "r", "s", "t", "u", "v", "w", "x", "y", "z"}

Upper == {"A", "B", "C", "D", "E", "F", "G", "H", "I", "J", "K", "L", "M",
          "N", "O", "P", "Q", "R", "S", "T", "U", "V", "W", "X", "Y", "Z"}

\* the characters of the model in ASCII order, for string comparison
Ascii ==
    <<"$", "/", "0", "1", "2", "3", "4", "5", "6", "7", "8", "9", ":", ";",
      "@", "A", "B", "C", "D", "E", "F", "G", "H", "I", "J", "K", "L", "M",
      "N", "O", "P", "Q", "R", "S", "T", "U", "V", "W", "X", "Y", "Z",
      "\\", "_", "a", "b", "c", "d", "e", "f", "g", "h", "i", "j", "k", "l",
      "m", "n", "o", "p", "q", "r", "s", "t", "u", "v", "w", "x", "y", "z",
      "{", "}">>

Ord(c) == CHOOSE i \in 1..Len(Ascii) : Ascii[i] = c

\* a < b as Python compares str
RECURSIVE StrLess(_, _)
StrLess(a, b) ==
    IF b = <<>> THEN FALSE
    ELSE IF a = <<>> THEN TRUE
    ELSE IF Head(a) = Head(b) THEN StrLess(Tail(a), Tail(b))
    ELSE Ord(Head(a)) < Ord(Head(b))

\* c.lower(): "A" is 26 places before "a" in Ascii, less the two between
LowerChar(c) == IF c \in Upper THEN Ascii[Ord(c) + 28] ELSE c

ToLower(s) == [i \in 1..Len(s) |-> LowerChar(s[i])]

\* s.replace(a, b) for single characters
\* nothing is replaced
ReplaceNothing(s, a, b) == s

Replace(s, a, b) == [i \in 1..Len(s) |-> IF s[i] = a THEN b ELSE s[i]]

\* s.startswith(prefix)
StartsWith(s, prefix) ==
    Len(s) >= Len(prefix) /\ SubSeq(s, 1, Len(prefix)) = prefix

\* \d of the re module
IsDigit(c) == \E i \in 1..10 : Digits[i] = c

DigitVal(c) == (CHOOSE i \in 1..10 : Digits[i] = c) - 1

\* \w of the re module
IsWord(c) == IsDigit(c) \/ c \in Lower \/ c \in Upper \/ c = "_"

\* dict lookups in the sequence-of-pairs representation
Keys(d) == {d[i][1] : i \in 1..Len(d)}

HasKey(d, k) == \E i \in 1..Len(d) : d[i][1] = k

Get(d, k) == d[CHOOSE i \in 1..Len(d) : d[i][1] = k][2]

\* d[k] = v: an existing key keeps its place in the iteration order
Put(d, k, v) ==
    IF HasKey(d, k)
    THEN [i \in 1..Len(d) |-> IF d[i][1] = k THEN <<k, v>> ELSE d[i]]
    ELSE Append(d, <<k, v>>)

\* s.strip(chars)
RECURSIVE LStrip(_, _)
LStrip(s, chars) ==
    IF s # <<>> /\ Head(s) \in chars THEN LStrip(Tail(s), chars) ELSE s

RECURSIVE RStrip(_, _)
RStrip(s, chars) ==
    IF s # <<>> /\ s[Len(s)] \in chars
    THEN RStrip(SubSeq(s, 1, Len(s) - 1), chars)
    ELSE s

Strip(s, chars) == RStrip(LStrip(s, chars), chars)

\* int(s) succeeds on a non-empty string of decimal digits (signs and
\* surrounding white space, which int() also accepts, are not in the
\* alphabet of the model) and raises ValueError otherwise
IsInt(s) == s # <<>> /\ \A i \in 1..Len(s) : IsDigit(s[i])

RECURSIVE StrToInt(_)
StrToInt(s) ==
    IF s = <<>> THEN 0
    ELSE 10 * StrToInt(SubSeq(s, 1, Len(s) - 1)) + DigitVal(s[Len(s)])

\* str(n) for a non-negative integer
RECURSIVE IntToStr(_)
IntToStr(n) ==
    IF n < 10 THEN <<Digits[n + 1]>>
    ELSE Append(IntToStr(n \div 10), Digits[(n % 10) + 1])

\* number of digits of s starting at position i
RECURSIVE DigitRun(_, _)
DigitRun(s, i) ==
    IF i <= Len(s) /\ IsDigit(s[i]) THEN 1 + DigitRun(s, i + 1) ELSE 0

\* number of \w characters of s starting at position i
RECURSIVE WordRun(_, _)
WordRun(s, i) ==
    IF i <= Len(s) /\ IsWord(s[i]) THEN 1 + WordRun(s, i + 1) ELSE 0

-----------------------------------------------------------------------------
(* Outcomes of a call *)

NoResult ==
    [kind |-> "none", value |-> <<>>, exc |-> "", arg |-> 0, code |-> 0,
     dict |-> <<>>]

Return(v) == [NoResult EXCEPT !.kind = "return", !.value = v]

ReturnDict(d) == [NoResult EXCEPT !.kind = "return", !.dict = d]

\* raise exc(arg), with exc.bindings = d where the source sets it
Raise(e, n, d) ==
    [NoResult EXCEPT !.kind = "raise", !.exc = e, !.arg = n, !.dict = d]

\* sys.exit(code)
Exit(c) == [NoResult EXCEPT !.kind = "exit", !.code = c]

\* one line of lib.echo
Line(msg, a, b) == [msg |-> msg, a |-> a, b |-> b]

\* be.yaml without any section
NoBe ==
    [key |-> <<>>, redirect |-> <<>>, hasenv |-> FALSE, environment |-> <<>>,
     script |-> FALSE, python |-> FALSE, alias |-> <<>>]

\* `owned` when in_ made the temporary directory itself
NoFrame ==
    [project |-> <<>>, topic_syntax |-> 0, template_syntax |-> 0,
     binding |-> <<>>, development_dir |-> <<>>, tempdir |-> <<>>,
     owned |-> FALSE]

NotLaunched == [started |-> FALSE, env |-> <<>>]

\* no `in` command is running: a library function is called on its own
CliIdle ==
    /\ environ = <<>>
    /\ be = NoBe
    /\ opts = [yes |-> FALSE, enter |-> FALSE, as_ |-> <<>>]
    /\ fs = [dirs |-> {}, cwd |-> <<>>, configured |-> FALSE, os |-> "posix"]
    /\ frame = NoFrame
    /\ launched = NotLaunched

-----------------------------------------------------------------------------
(* lib.item_from_topics *)

\* re.match("{\d+}", key): the pattern is anchored at the start only
MatchKey(k) ==
    /\ Len(k) >= 3
    /\ k[1] = "{"
    /\ DigitRun(k, 2) >= 1
    /\ 2 + DigitRun(k, 2) <= Len(k)
    /\ k[2 + DigitRun(k, 2)] = "}"

item_from_topics_required_off_by_one(k, t) ==
    IF MatchKey(k)
    THEN LET s == Strip(k, {"{", "}"})
         IN  IF ~IsInt(s) THEN Raise("ValueError", 0, <<>>)
             ELSE LET pos == StrToInt(s)
                  IN  IF pos < Len(t) THEN Return(t[pos + 1])
                      ELSE Raise("IndexError", pos, <<>>)
    ELSE Exit(PROJECT_ERROR)

item_from_topics(k, t) ==
    IF MatchKey(k)
    THEN LET s == Strip(k, {"{", "}"})
         IN  IF ~IsInt(s) THEN Raise("ValueError", 0, <<>>)
             ELSE LET pos == StrToInt(s)
                  IN  IF pos < Len(t) THEN Return(t[pos + 1])
                      ELSE Raise("IndexError", pos + 1, <<>>)
    ELSE Exit(PROJECT_ERROR)

item_from_topics_echo(k) ==
    IF MatchKey(k) THEN <<>>
    ELSE <<Line("be.yaml template key not recognised", <<>>, <<>>)>>

-----------------------------------------------------------------------------
(* Bounds and input alphabets *)

MaxKeyLen == 4
MaxTopics == 3

KeyChars == {"{", "}", "0", "1", "2", "a"}

TopicValues == {<<"a">>, <<"b">>}

SeqsUpTo(S, n) == UNION {[1..m -> S] : m \in 0..n}

-----------------------------------------------------------------------------
(* Specification of item_from_topics over every key selector and topics *)

InitKey ==
    /\ pc = "ready"
    /\ key \in SeqsUpTo(KeyChars, MaxKeyLen)
    /\ topics \in SeqsUpTo(TopicValues, MaxTopics)
    /\ inventory = <<>>
    /\ loaded = <<>>
    /\ templates = <<>>
    /\ context = <<>>
    /\ item = <<>>
    /\ bindings = <<>>
    /\ result = NoResult
    /\ echoed = <<>>
    /\ CliIdle

ItemFromTopics ==
    /\ pc = "ready"
    /\ pc' = "done"
    /\ result' = item_from_topics(key, topics)
    /\ echoed' = item_from_topics_echo(key)
    /\ UNCHANGED <<key, topics, inventory, loaded, templates, context, item,
                   bindings, cli>>

NextKey == ItemFromTopics

SpecKey == InitKey /\ [][NextKey]_vars

\* the key selector is literally "{", decimal digits, "}"
IsLiteralKey(k) ==
    /\ Len(k) >= 3
    /\ k[1] = "{"
    /\ k[Len(k)] = "}"
    /\ \A i \in 2..(Len(k) - 1) : IsDigit(k[i])

LiteralN(k) == StrToInt(SubSeq(k, 2, Len(k) - 1))

\* C2: for a key selector of the literal form {N}, item_from_topics returns
\* topics[N] when N < len(topics) and otherwise raises IndexError(N + 1).
C2_ItemFromLiteralKey ==
    (pc = "done" /\ IsLiteralKey(key)) =>
        IF LiteralN(key) < Len(topics)
        THEN result = Return(topics[LiteralN(key) + 1])
        ELSE result = Raise("IndexError", LiteralN(key) + 1, <<>>)

C2_Witness ==
    /\ pc = "done"
    /\ key = <<"{", "1", "}">>
    /\ topics = <<<<"a">>, <<"b">>, <<"a">>>>
    /\ result = Return(<<"b">>)

\* the multi-digit selector {10} with two topics asks for eleven
C2_OutOfRangeReached ==
    /\ pc = "done"
    /\ key = <<"{", "1", "0", "}">>
    /\ Len(topics) = 2
    /\ result = Raise("IndexError", 11, <<>>)

\* C3: a key selector that is not exactly {digits} makes item_from_topics
\* exit with PROJECT_ERROR after echoing 'be.yaml template key not
\* recognised', and never raise an index, key or value-conversion error.
C3_NotLiteralKeyIsConfigurationError ==
    (pc = "done" /\ ~IsLiteralKey(key)) =>
        /\ result = Exit(PROJECT_ERROR)
        /\ echoed = <<Line("be.yaml template key not recognised", <<>>, <<>>)>>

-----------------------------------------------------------------------------
(* lib.invert_inventory and lib.binding_from_item *)

\* An inventory item is a scalar (a string, or a number when `num`) or,
\* when `isdict`, a one-key mapping whose key is that scalar.

\* item.keys()[0] of a mapping item, the item itself otherwise
ItemScalar(it) == [num |-> it.num, s |-> it.s, n |-> it.n]

\* the item is taken for a string as it is
ItemStrOfText(sc) == sc.s

\* str(item): "Key may be number"
ItemStr(sc) == IF sc.num THEN IntToStr(sc.n) ELSE sc.s

\* the (binding, str(item)) pairs in the order the two nested loops of
\* invert_inventory meet them
RECURSIVE InventoryPairs(_)
InventoryPairs(inv) ==
    IF inv = <<>> THEN <<>>
    ELSE LET binding == inv[1][1]
             items == inv[1][2]
         IN  [i \in 1..Len(items) |->
                 <<binding, ItemStr(ItemScalar(items[i]))>>]
             \o InventoryPairs(Tail(inv))

\* body of the inner loop: a later duplicate overwrites the earlier entry
InvertStepLastWins(acc, binding, id) ==
    [inverted |-> Put(acc.inverted, id, binding),
     echoed |-> IF HasKey(acc.inverted, id)
                THEN Append(acc.echoed,
                            Line("Warning: Duplicate item found", binding, id))
                ELSE acc.echoed]

\* body of the inner loop
InvertStep(acc, binding, id) ==
    IF HasKey(acc.inverted, id)
    THEN [acc EXCEPT !.echoed =
              Append(@, Line("Warning: Duplicate item found", binding, id))]
    ELSE [acc EXCEPT !.inverted = Append(@, <<id, binding>>)]

RECURSIVE InvertLoop(_, _)
InvertLoop(pairs, acc) ==
    IF pairs = <<>> THEN acc
    ELSE InvertLoop(Tail(pairs), InvertStep(acc, pairs[1][1], pairs[1][2]))

\* [inverted |-> the returned dict, echoed |-> the warnings written]
invert_inventory(inv) ==
    InvertLoop(InventoryPairs(inv), [inverted |-> <<>>, echoed |-> <<>>])

\* the KeyError carries the memo cache in place of the inverted inventory
binding_from_item_raises_with_cache(cache, inv, it) ==
    IF HasKey(cache, it)
    THEN [result |-> Return(Get(cache, it)), bindings |-> cache,
          echoed |-> <<>>]
    ELSE LET r == invert_inventory(inv)
         IN  IF HasKey(r.inverted, it)
             THEN [result |-> Return(Get(r.inverted, it)),
                   bindings |-> Put(cache, it, Get(r.inverted, it)),
                   echoed |-> r.echoed]
             ELSE [result |-> Raise("KeyError", 0, cache),
                   bindings |-> cache,
                   echoed |-> r.echoed]

\* every call inverts the inventory and stores what it finds
binding_from_item_refreshing(cache, inv, it) ==
    LET r == invert_inventory(inv)
    IN  IF HasKey(r.inverted, it)
        THEN [result |-> Return(Get(r.inverted, it)),
              bindings |-> Put(cache, it, Get(r.inverted, it)),
              echoed |-> r.echoed]
        ELSE [result |-> Raise("KeyError", 0, r.inverted),
              bindings |-> cache,
              echoed |-> r.echoed]

\* [result, bindings (the memo cache afterwards), echoed]
binding_from_item(cache, inv, it) ==
    IF HasKey(cache, it)
    THEN [result |-> Return(Get(cache, it)), bindings |-> cache,
          echoed |-> <<>>]
    ELSE LET r == invert_inventory(inv)
         IN  IF HasKey(r.inverted, it)
             THEN [result |-> Return(Get(r.inverted, it)),
                   bindings |-> Put(cache, it, Get(r.inverted, it)),
                   echoed |-> r.echoed]
             ELSE [result |-> Raise("KeyError", 0, r.inverted),
                   bindings |-> cache,
                   echoed |-> r.echoed]

-----------------------------------------------------------------------------
(* Specification of invert_inventory over every inventory and every        *)
(* iteration order of its bindings                                         *)

MaxItems == 2

BindingNames == {<<"a">>, <<"s">>}

\* the string "p", the number 1, the string "1", the mapping {"p": ...}
\* and the mapping {1: ...}
ItemValues ==
    {[isdict |-> FALSE, num |-> FALSE, s |-> <<"p">>, n |-> 0],
     [isdict |-> FALSE, num |-> TRUE, s |-> <<>>, n |-> 1],
     [isdict |-> FALSE, num |-> FALSE, s |-> <<"1">>, n |-> 0],
     [isdict |-> TRUE, num |-> FALSE, s |-> <<"p">>, n |-> 0],
     [isdict |-> TRUE, num |-> TRUE, s |-> <<>>, n |-> 1]}

ItemIds == {<<"p">>, <<"1">>, <<"q">>}

DistinctKeys(d) == \A i, j \in 1..Len(d) : d[i][1] = d[j][1] => i = j

\* every dict over BindingNames, in every iteration order
Inventories ==
    {d \in SeqsUpTo(BindingNames \X SeqsUpTo(ItemValues, MaxItems),
                    Cardinality(BindingNames)) : DistinctKeys(d)}

InitInv ==
    /\ pc = "ready"
    /\ key = <<>>
    /\ topics = <<>>
    /\ inventory \in Inventories
    /\ loaded = <<>>
    /\ templates = <<>>
    /\ context = <<>>
    /\ item = <<>>
    /\ bindings = <<>>
    /\ result = NoResult
    /\ echoed = <<>>
    /\ CliIdle

InvertInventory ==
    /\ pc = "ready"
    /\ pc' = "inverted"
    /\ result' = ReturnDict(invert_inventory(inventory).inverted)
    /\ echoed' = invert_inventory(inventory).echoed
    /\ UNCHANGED <<key, topics, inventory, loaded, templates, context, item,
                   bindings, cli>>

NextInv == InvertInventory

SpecInv == InitInv /\ [][NextInv]_vars

\* the places of item id `id` in the iteration order
Occurrences(inv, id) ==
    {i \in 1..Len(InventoryPairs(inv)) : InventoryPairs(inv)[i][2] = id}

\* `id` is listed once under each of exactly two bindings
UnderTwoBindings(inv, id) ==
    /\ Cardinality(Occurrences(inv, id)) = 2
    /\ Cardinality({InventoryPairs(inv)[i][1] : i \in Occurrences(inv, id)}) = 2

FirstOccurrence(inv, id) ==
    CHOOSE i \in Occurrences(inv, id) : \A j \in Occurrences(inv, id) : i <= j

DuplicateWarnings(lines, id) ==
    {i \in 1..Len(lines) :
        lines[i].msg = "Warning: Duplicate item found" /\ lines[i].b = id}

\* C5: an item id listed under two bindings is mapped to the binding of the
\* occurrence met first in iteration order, and exactly one duplicate
\* warning is written for it.
C5_FirstBindingWinsOneWarning ==
    pc = "inverted" =>
        \A id \in ItemIds :
            UnderTwoBindings(inventory, id) =>
                /\ HasKey(result.dict, id)
                /\ Get(result.dict, id) =
                       InventoryPairs(inventory)[FirstOccurrence(inventory, id)][1]
                /\ Cardinality(DuplicateWarnings(echoed, id)) = 1

\* "shot" lists the number 1 and is iterated before "asset", which lists
\* the string "1": the id "1" stays with "shot"
C5_Witness ==
    /\ pc = "inverted"
    /\ Len(inventory) = 2
    /\ inventory[1][1] = <<"s">>
    /\ UnderTwoBindings(inventory, <<"1">>)
    /\ Get(result.dict, <<"1">>) = <<"s">>
    /\ echoed = <<Line("Warning: Duplicate item found", <<"a">>, <<"1">>)>>

-----------------------------------------------------------------------------
(* str.format of Python 2.7 with positional and keyword arguments, for      *)
(* format strings without                                                  *)
(* the characters ".", "[", "!" and ":" (attribute, index, conversion and  *)
(* format-spec syntax)                                                     *)

\* raise KeyError(name)
RaiseKey(name) ==
    [NoResult EXCEPT !.kind = "raise", !.exc = "KeyError", !.value = name]

\* the index of the "}" closing the replacement field whose text starts at
\* j, counting nested braces; 0 when the string ends first
RECURSIVE FieldEnd(_, _, _)
FieldEnd(p, j, count) ==
    IF j > Len(p) THEN 0
    ELSE IF p[j] = "{" THEN FieldEnd(p, j + 1, count + 1)
    ELSE IF p[j] = "}"
         THEN IF count = 1 THEN j ELSE FieldEnd(p, j + 1, count - 1)
    ELSE FieldEnd(p, j + 1, count)

\* The scan of the format string from position i.  `mode` is the automatic
\* numbering state ("init", "auto" or "manual"), n the next automatic
\* index, out the text produced so far.
RECURSIVE FormatFrom(_, _, _, _, _, _, _)
FormatFrom(p, i, mode, n, out, args, kwargs) ==
    IF i > Len(p) THEN Return(out)
    ELSE IF p[i] = "}"
    THEN IF i < Len(p) /\ p[i + 1] = "}"
         THEN FormatFrom(p, i + 2, mode, n, Append(out, "}"), args, kwargs)
         ELSE Raise("ValueError", 0, <<>>)   \* Single '}' encountered
    ELSE IF p[i] = "{"
    THEN IF i = Len(p) THEN Raise("ValueError", 0, <<>>)  \* Single '{'
         ELSE IF p[i + 1] = "{"
         THEN FormatFrom(p, i + 2, mode, n, Append(out, "{"), args, kwargs)
         ELSE LET e == FieldEnd(p, i + 1, 1)
                  name == SubSeq(p, i + 1, e - 1)
              IN  IF e = 0 THEN Raise("ValueError", 0, <<>>)  \* unmatched '{'
                  ELSE IF name = <<>>
                  THEN \* automatic numbering
                       IF mode = "manual" THEN Raise("ValueError", 0, <<>>)
                       ELSE IF n >= Len(args) THEN Raise("IndexError", 0, <<>>)
                       ELSE FormatFrom(p, e + 1, "auto", n + 1,
                                       out \o args[n + 1], args, kwargs)
                  ELSE IF IsInt(name)
                  THEN IF mode = "auto" THEN Raise("ValueError", 0, <<>>)
                       ELSE IF StrToInt(name) >= Len(args)
                       THEN Raise("IndexError", 0, <<>>)
                       ELSE FormatFrom(p, e + 1, "manual", n,
                                       out \o args[StrToInt(name) + 1],
                                       args, kwargs)
                  ELSE IF ~HasKey(kwargs, name) THEN RaiseKey(name)
                  ELSE FormatFrom(p, e + 1, mode, n,
                                  out \o Get(kwargs, name), args, kwargs)
    ELSE FormatFrom(p, i + 1, mode, n, Append(out, p[i]), args, kwargs)

Format(p, args, kwargs) == FormatFrom(p, 1, "init", 0, <<>>, args, kwargs)

-----------------------------------------------------------------------------
(* lib.pos_development_directory and what it calls *)

\* dict((k[3:].lower(), context[k]) for k in context if k.startswith("BE_")):
\* of two keys with the same lowered name the one iterated last stays
RECURSIVE replacement_fields_from_context(_)
replacement_fields_from_context(ctx) ==
    IF ctx = <<>> THEN <<>>
    ELSE LET rest == replacement_fields_from_context(
                         SubSeq(ctx, 1, Len(ctx) - 1))
             k == ctx[Len(ctx)][1]
         IN  IF StartsWith(k, <<"B", "E", "_">>)
             THEN Put(rest, ToLower(SubSeq(k, 4, Len(k))), ctx[Len(ctx)][2])
             ELSE rest

\* re.findall("{\d+}", pattern): the whole placeholder, of any width
RECURSIVE FindAllWidePositional(_, _)
FindAllWidePositional(p, i) ==
    IF i > Len(p) THEN <<>>
    ELSE IF p[i] = "{" /\ DigitRun(p, i + 1) >= 1
            /\ i + 1 + DigitRun(p, i + 1) <= Len(p)
            /\ p[i + 1 + DigitRun(p, i + 1)] = "}"
    THEN <<SubSeq(p, i, i + 1 + DigitRun(p, i + 1))>>
         \o FindAllWidePositional(p, i + 2 + DigitRun(p, i + 1))
    ELSE FindAllWidePositional(p, i + 1)

\* re.findall("{\d?}", pattern): "{}" or "{d}" with one digit, leftmost
\* first and without overlap
RECURSIVE FindAllPositional(_, _)
FindAllPositional(p, i) ==
    IF i > Len(p) THEN <<>>
    ELSE IF p[i] = "{" /\ i + 2 <= Len(p) /\ IsDigit(p[i + 1]) /\ p[i + 2] = "}"
    THEN <<SubSeq(p, i, i + 2)>> \o FindAllPositional(p, i + 3)
    ELSE IF p[i] = "{" /\ i + 1 <= Len(p) /\ p[i + 1] = "}"
    THEN <<SubSeq(p, i, i + 1)>> \o FindAllPositional(p, i + 2)
    ELSE FindAllPositional(p, i + 1)

find_positional_arguments(pattern) == FindAllPositional(pattern, 1)

\* sorted(l)[-1] of a non-empty list of strings
SortedLast(l) ==
    l[CHOOSE i \in 1..Len(l) : \A j \in 1..Len(l) : ~StrLess(l[i], l[j])]

\* int(sorted(topics)[-1].strip("{}")): IndexError on the empty list,
\* ValueError when the last element is "{}"
find_highest_position(l) ==
    IF l = <<>> THEN Raise("IndexError", 0, <<>>)
    ELSE LET s == Strip(SortedLast(l), {"{", "}"})
         IN  IF IsInt(s) THEN [NoResult EXCEPT !.kind = "return",
                                               !.arg = StrToInt(s)]
             ELSE Raise("ValueError", 0, <<>>)

\* [result, echoed]
pattern_from_template(tmpl, name) ==
    IF ~HasKey(tmpl, name)
    THEN [result |-> Exit(1),
          echoed |-> <<Line("No template named", name, <<>>)>>]
    ELSE [result |-> Return(Get(tmpl, name)), echoed |-> <<>>]

\* the lines of the except branch: the key, then every available token
TemplateErrorLines(name, fields) ==
    <<Line("TEMPLATE ERROR: is not an available key", name, <<>>),
      Line("Available tokens:", <<>>, <<>>)>>
    \o [i \in 1..Len(fields) |-> Line("- ", fields[i][1], <<>>)]

\* lines 380-395, once binding and pattern are known: [result, echoed]
FormatDevelopmentDirectory(pattern, fields, t, it) ==
    LET highest == find_highest_position(find_positional_arguments(pattern))
    IN  IF highest.kind = "raise" THEN [result |-> highest, echoed |-> <<>>]
        ELSE IF Len(t) - 1 < highest.arg
        THEN [result |-> Exit(USER_ERROR),
              echoed |-> <<Line("Template requires at least arguments",
                                it, IntToStr(highest.arg + 1))>>]
        ELSE LET f == Format(pattern, t, fields)
             IN  IF f.kind = "return"
                 THEN [result |-> Return(Replace(f.value, "\\", "/")),
                       echoed |-> <<>>]
                 ELSE IF f.exc = "KeyError"
                 THEN [result |-> Exit(TEMPLATE_ERROR),
                       echoed |-> TemplateErrorLines(f.value, fields)]
                 ELSE [result |-> f, echoed |-> <<>>]

\* [result, bindings (the memo cache afterwards), echoed]
pos_development_directory(cache, tmpl, inv, ctx, t, it) ==
    LET fields == replacement_fields_from_context(ctx)
        b == binding_from_item(cache, inv, it)
    IN  IF b.result.kind # "return" THEN b
        ELSE LET pt == pattern_from_template(tmpl, b.result.value)
             IN  IF pt.result.kind # "return"
                 THEN [result |-> pt.result, bindings |-> b.bindings,
                       echoed |-> b.echoed \o pt.echoed]
                 ELSE LET d == FormatDevelopmentDirectory(
                                   pt.result.value, fields, t, it)
                      IN  [result |-> d.result, bindings |-> b.bindings,
                           echoed |-> b.echoed \o d.echoed]

-----------------------------------------------------------------------------
(* Specification of pos_development_directory over patterns built from     *)
(* placeholders, separators and stray braces                               *)

MaxPatternTokens == 3

PatternTokens ==
    {<<"{", "0", "}">>, <<"{", "1", "}">>, <<"{", "1", "0", "}">>,
     <<"{", "}">>, <<"{", "a", "}">>, <<"{", "n", "}">>,
     <<"/">>, <<"\\">>, <<"{", "{">>, <<"}">>}

RECURSIVE Concat(_)
Concat(ss) == IF ss = <<>> THEN <<>> ELSE Head(ss) \o Concat(Tail(ss))

Patterns == {Concat(ts) : ts \in SeqsUpTo(PatternTokens, MaxPatternTokens)}

\* topics t0, t1, ...: up to MaxTopics of them, or eleven, enough for {10}
PosTopics ==
    {[i \in 1..n |-> <<"t">> \o IntToStr(i - 1)] : n \in (0..MaxTopics) \cup {11}}

\* BE_A is the field "a"; no context defines a field "n"
PosContexts ==
    {<< <<<<"B", "E", "_", "A">>, <<"v">>>>, <<<<"P", "A", "T", "H">>, <<"p">>>> >>,
     << <<<<"B", "E", "_", "B">>, <<"w">>>>, <<<<"B", "E", "_", "A">>, <<"v", "\\">>>> >>}

ItemP == [isdict |-> FALSE, num |-> FALSE, s |-> <<"p">>, n |-> 0]

\* item "p" is bound to "a" or is not in the inventory
PosInventories == {<< <<<<"a">>, <<ItemP>>>> >>, << <<<<"a">>, <<>>>> >>}

InitPos ==
    /\ pc = "ready"
    /\ key = <<>>
    /\ topics \in PosTopics
    /\ inventory \in PosInventories
    /\ loaded = <<>>
    /\ templates \in {<< <<b, p>> >> : b \in BindingNames, p \in Patterns}
    /\ context \in PosContexts
    /\ item = <<"p">>
    /\ bindings = <<>>
    /\ result = NoResult
    /\ echoed = <<>>
    /\ CliIdle

PosDevelopmentDirectory ==
    /\ pc = "ready"
    /\ pc' = "done"
    /\ LET r == pos_development_directory(bindings, templates, inventory,
                                          context, topics, item)
       IN  /\ result' = r.result
           /\ bindings' = r.bindings
           /\ echoed' = r.echoed
    /\ UNCHANGED <<key, topics, inventory, loaded, templates, context, item, cli>>

NextPos == PosDevelopmentDirectory

SpecPos == InitPos /\ [][NextPos]_vars

\* The replacement fields of a format string, read as str.format reads it:
\* [ok |-> the braces are balanced, names |-> the field names in order,
\*  escapes |-> a doubled brace stands for a literal one]
RECURSIVE FieldsFrom(_, _, _)
FieldsFrom(p, i, acc) ==
    IF i > Len(p) THEN acc
    ELSE IF p[i] = "}"
    THEN IF i < Len(p) /\ p[i + 1] = "}"
         THEN FieldsFrom(p, i + 2, [acc EXCEPT !.escapes = TRUE])
         ELSE [acc EXCEPT !.ok = FALSE]
    ELSE IF p[i] = "{"
    THEN IF i = Len(p) THEN [acc EXCEPT !.ok = FALSE]
         ELSE IF p[i + 1] = "{"
         THEN FieldsFrom(p, i + 2, [acc EXCEPT !.escapes = TRUE])
         ELSE IF FieldEnd(p, i + 1, 1) = 0 THEN [acc EXCEPT !.ok = FALSE]
         ELSE FieldsFrom(p, FieldEnd(p, i + 1, 1) + 1,
                         [acc EXCEPT !.names =
                              Append(@, SubSeq(p, i + 1, FieldEnd(p, i + 1, 1) - 1))])
    ELSE FieldsFrom(p, i + 1, acc)

Fields(p) == FieldsFrom(p, 1, [ok |-> TRUE, names |-> <<>>, escapes |-> FALSE])

\* the named placeholders of the pattern
NamedFields(p) ==
    {Fields(p).names[i] : i \in {j \in 1..Len(Fields(p).names) :
        Fields(p).names[j] # <<>> /\ ~IsInt(Fields(p).names[j])}}

IndexedFields(p) ==
    {j \in 1..Len(Fields(p).names) : IsInt(Fields(p).names[j])}

BareFields(p) ==
    {j \in 1..Len(Fields(p).names) : Fields(p).names[j] = <<>>}

\* every brace of the pattern belongs to a placeholder {N}, {} or {name}
\* with a name of word characters, and {} is not mixed with {N}
PlainPattern(p) ==
    /\ Fields(p).ok
    /\ ~Fields(p).escapes
    /\ \A nm \in NamedFields(p) : \A i \in 1..Len(nm) : IsWord(nm[i])
    /\ IndexedFields(p) = {} \/ BareFields(p) = {}

SetMax(S) == CHOOSE x \in S : \A y \in S : y <= x

\* the highest topic index the pattern refers to, -1 when it refers to none
HighestPosition(p) ==
    SetMax({-1} \cup {StrToInt(Fields(p).names[j]) : j \in IndexedFields(p)}
                \cup {Cardinality(BareFields(p)) - 1})

\* the call finds the item's binding and the binding's pattern
PatternFound ==
    /\ HasKey(invert_inventory(inventory).inverted, item)
    /\ HasKey(templates, Get(invert_inventory(inventory).inverted, item))

ThePattern == Get(templates, Get(invert_inventory(inventory).inverted, item))

HasBrace(s) == \E i \in 1..Len(s) : s[i] \in {"{", "}"}

\* C6: when the pattern refers to a topic index above len(topics) - 1
\* (multi-digit indices and the bare {} included), pos_development_directory
\* exits with USER_ERROR after reporting highest index + 1 required
\* arguments, and raises no format, index or conversion error.
C6_InsufficientTopicsIsUserError ==
    (/\ pc = "done"
     /\ PatternFound
     /\ PlainPattern(ThePattern)
     /\ HighestPosition(ThePattern) > Len(topics) - 1) =>
        /\ result = Exit(USER_ERROR)
        /\ echoed = <<Line("Template requires at least arguments", item,
                           IntToStr(HighestPosition(ThePattern) + 1))>>

\* C7: when len(topics) - 1 is at least the highest topic index of the
\* pattern, pos_development_directory returns a path, and the path holds no
\* "{" or "}".  (Stated for the patterns most favourable to the claim: all
\* braces belong to placeholders and every named field is available.)
C7_EnoughTopicsGiveBraceFreePath ==
    (/\ pc = "done"
     /\ PatternFound
     /\ PlainPattern(ThePattern)
     /\ NamedFields(ThePattern) \subseteq Keys(replacement_fields_from_context(context))
     /\ Len(topics) - 1 >= HighestPosition(ThePattern)) =>
        /\ result.kind = "return"
        /\ ~HasBrace(result.value)

\* C8: when the pattern has a named placeholder without an entry in the
\* field mapping, pos_development_directory lists every available field
\* name and exits with TEMPLATE_ERROR.  (Stated for the calls most
\* favourable to the claim: all braces belong to placeholders and the
\* topics cover every topic index of the pattern.)
C8_UnknownFieldIsTemplateError ==
    (/\ pc = "done"
     /\ PatternFound
     /\ PlainPattern(ThePattern)
     /\ Len(topics) - 1 >= HighestPosition(ThePattern)
     /\ ~(NamedFields(ThePattern) \subseteq
              Keys(replacement_fields_from_context(context)))) =>
        /\ result = Exit(TEMPLATE_ERROR)
        /\ {echoed[i].a : i \in {j \in 1..Len(echoed) : echoed[j].msg = "- "}}
               = Keys(replacement_fields_from_context(context))

-----------------------------------------------------------------------------
(* _extern._resolve_references *)

\* re.sub("{@\w+}", repl, pattern) from position i, where repl returns
\* live[name] and calls sys.exit when name is no key of live:
\* [ok, value, missing (the unresolvable name)]
RECURSIVE SubReferences(_, _, _)
SubReferences(p, i, live) ==
    IF i > Len(p) THEN [ok |-> TRUE, value |-> <<>>, missing |-> <<>>]
    ELSE IF /\ p[i] = "{"
            /\ i + 1 <= Len(p) /\ p[i + 1] = "@"
            /\ WordRun(p, i + 2) >= 1
            /\ i + 2 + WordRun(p, i + 2) <= Len(p)
            /\ p[i + 2 + WordRun(p, i + 2)] = "}"
    THEN LET e == i + 2 + WordRun(p, i + 2)
             name == Strip(SubSeq(p, i, e), {"@", "{", "}"})
         IN  IF ~HasKey(live, name)
             THEN [ok |-> FALSE, value |-> <<>>, missing |-> name]
             ELSE LET rest == SubReferences(p, e + 1, live)
                  IN  IF rest.ok
                      THEN [rest EXCEPT !.value = Get(live, name) \o @]
                      ELSE rest
    ELSE LET rest == SubReferences(p, i + 1, live)
         IN  IF rest.ok THEN [rest EXCEPT !.value = <<p[i]>> \o @] ELSE rest

\* repl looks the name up in the snapshot taken before the loop
LookupInSnapshot(snapshot, live) == snapshot

\* repl looks the name up in `templates`, the dict the loop is rewriting
LookupDict(snapshot, live) == live

\* the loop leaves a pattern with an unresolvable reference as it is and
\* goes on with the next
RECURSIVE ResolveLoopSkipping(_, _, _)
ResolveLoopSkipping(snapshot, k, live) ==
    IF k > Len(snapshot)
    THEN [result |-> ReturnDict(live), templates |-> live, echoed |-> <<>>]
    ELSE LET r == SubReferences(snapshot[k][2], 1, LookupDict(snapshot, live))
         IN  ResolveLoopSkipping(
                 snapshot, k + 1,
                 IF r.ok THEN Put(live, snapshot[k][1], r.value) ELSE live)

\* the loop over templates.copy().iteritems() from its k-th pair on:
\* [result, templates (the dict as the loop leaves it), echoed]
RECURSIVE ResolveLoop(_, _, _)
ResolveLoop(snapshot, k, live) ==
    IF k > Len(snapshot)
    THEN [result |-> ReturnDict(live), templates |-> live, echoed |-> <<>>]
    ELSE LET r == SubReferences(snapshot[k][2], 1, LookupDict(snapshot, live))
         IN  IF r.ok
             THEN ResolveLoop(snapshot, k + 1, Put(live, snapshot[k][1], r.value))
             ELSE [result |-> Exit(USER_ERROR), templates |-> live,
                   echoed |-> <<Line("Unresolvable reference", r.missing, <<>>)>>]

_resolve_references(tmpl) == ResolveLoop(tmpl, 1, tmpl)

-----------------------------------------------------------------------------
(* Specification of _resolve_references over template sets with up to      *)
(* three keys and a bounded number of tokens, in every iteration order     *)

MaxRefTokens == 3

TemplateKeys == {<<"a">>, <<"b">>, <<"c">>}

\* references to b and to c, and text with an ordinary placeholder
RefTokens == {<<"{", "@", "b", "}">>, <<"{", "@", "c", "}">>, <<"{", "k", "}", "/">>}

\* the keys of a template set in its iteration order
KeyOrders ==
    {ks \in SeqsUpTo(TemplateKeys, Cardinality(TemplateKeys)) :
        \A i, j \in 1..Len(ks) : ks[i] = ks[j] => i = j}

\* the tokens ts dealt out to the keys ks: the m-th pattern is made of the
\* tokens after cut[m - 1] up to cut[m]
DealTokens(ks, ts, cut) ==
    [m \in 1..Len(ks) |->
        <<ks[m], Concat(SubSeq(ts, (IF m = 1 THEN 0 ELSE cut[m - 1]) + 1, cut[m]))>>]

\* every template set over TemplateKeys holding at most MaxRefTokens tokens
\* in all, in every iteration order
TemplateSets ==
    {DealTokens(x[1], x[2], x[3]) :
        x \in {y \in KeyOrders \X SeqsUpTo(RefTokens, MaxRefTokens)
                      \X [1..Cardinality(TemplateKeys) -> 0..MaxRefTokens] :
                 /\ \A m \in 1..(Cardinality(TemplateKeys) - 1) :
                        y[3][m] <= y[3][m + 1]
                 /\ \A m \in 1..Cardinality(TemplateKeys) :
                        /\ y[3][m] <= Len(y[2])
                        /\ m >= Len(y[1]) => y[3][m] = Len(y[2])
                 /\ y[1] = <<>> => y[2] = <<>>}}

InitRef ==
    /\ pc = "ready"
    /\ key = <<>>
    /\ topics = <<>>
    /\ inventory = <<>>
    /\ loaded \in TemplateSets
    /\ templates = loaded
    /\ context = <<>>
    /\ item = <<>>
    /\ bindings = <<>>
    /\ result = NoResult
    /\ echoed = <<>>
    /\ CliIdle

\* load_templates: the loaded dict is resolved in place and returned
ResolveReferences ==
    /\ pc = "ready"
    /\ pc' = "done"
    /\ LET r == _resolve_references(templates)
       IN  /\ result' = r.result
           /\ templates' = r.templates
           /\ echoed' = r.echoed
    /\ UNCHANGED <<key, topics, inventory, loaded, context, item, bindings, cli>>

NextRef == ResolveReferences

SpecRef == InitRef /\ [][NextRef]_vars

\* the names of the {@name} tokens of a pattern
RefNames(p) ==
    {SubSeq(p, i + 2, i + 1 + WordRun(p, i + 2)) :
        i \in {j \in 1..Len(p) :
                 /\ p[j] = "{"
                 /\ j + 1 <= Len(p) /\ p[j + 1] = "@"
                 /\ WordRun(p, j + 2) >= 1
                 /\ j + 2 + WordRun(p, j + 2) <= Len(p)
                 /\ p[j + 2 + WordRun(p, j + 2)] = "}"}}

\* every {@name} token of the set names a key of the set
AllResolvable(d) == \A i \in 1..Len(d) : RefNames(d[i][2]) \subseteq Keys(d)

NoReferences(d) == \A i \in 1..Len(d) : \A j \in 1..Len(d[i][2]) : d[i][2][j] # "@"

\* the keys reached from the keys S along at most n references
RECURSIVE ReachN(_, _, _)
ReachN(d, S, n) ==
    IF n = 0 THEN S
    ELSE ReachN(d, S \cup UNION {RefNames(Get(d, x)) : x \in S \cap Keys(d)}, n - 1)

\* no pattern refers to itself, directly or through other patterns
Acyclic(d) ==
    \A i \in 1..Len(d) : d[i][1] \notin ReachN(d, RefNames(d[i][2]), Len(d))

\* the dict repl reads while the i-th pattern is rewritten: the patterns
\* before the i-th are rewritten already, the others are as loaded
DictAtStep(before, after, i) ==
    [j \in 1..Len(before) |-> IF j < i THEN after[j] ELSE before[j]]

\* C9: when every {@name} token names an existing key, _resolve_references
\* returns the template set with the same keys, each pattern having every
\* {@name} token replaced by the pattern `name` has at that moment; a set
\* without {@...} tokens is returned unchanged.
C9_ReferencesReplacedByPattern ==
    (pc = "done" /\ AllResolvable(loaded)) =>
        /\ result = ReturnDict(templates)
        /\ Len(templates) = Len(loaded)
        /\ \A i \in 1..Len(loaded) :
              /\ templates[i][1] = loaded[i][1]
              /\ templates[i][2] =
                     SubReferences(loaded[i][2], 1,
                                   DictAtStep(loaded, templates, i)).value
        /\ NoReferences(loaded) => templates = loaded

\* the example of the docstring: a = {@b}{k}/ and b = {k}/ give
\* a = {k}/{k}/ and leave b as it is
C9_Witness ==
    /\ pc = "done"
    /\ loaded = << <<<<"a">>, <<"{", "@", "b", "}", "{", "k", "}", "/">>>>,
                   <<<<"b">>, <<"{", "k", "}", "/">>>> >>
    /\ templates = << <<<<"a">>, <<"{", "k", "}", "/", "{", "k", "}", "/">>>>,
                      <<<<"b">>, <<"{", "k", "}", "/">>>> >>

\* C10: after _resolve_references returns, no pattern holds a {@...} token,
\* also for chains of references and for every processing order.  (Stated
\* for the sets most favourable to the claim: every reference names a key
\* and no pattern refers back to itself.)
C10_NoReferenceLeft ==
    (pc = "done" /\ AllResolvable(loaded) /\ Acyclic(loaded)) =>
        /\ result.kind = "return"
        /\ \A i \in 1..Len(templates) : RefNames(templates[i][2]) = {}

\* what does hold: references to patterns that hold no reference themselves
\* are all resolved
C10_OneLevelResolved ==
    (/\ pc = "done"
     /\ AllResolvable(loaded)
     /\ \A i \in 1..Len(loaded) : \A nm \in RefNames(loaded[i][2]) :
            RefNames(Get(loaded, nm)) = {}) =>
        \A i \in 1..Len(templates) : RefNames(templates[i][2]) = {}
-----------------------------------------------------------------------------
(* str.split, str.join and dict.update *)

\* s.split(sep) for a one-character separator
RECURSIVE SplitFrom(_, _, _, _)
SplitFrom(s, sep, i, cur) ==
    IF i > Len(s) THEN <<cur>>
    ELSE IF s[i] = sep THEN <<cur>> \o SplitFrom(s, sep, i + 1, <<>>)
    ELSE SplitFrom(s, sep, i + 1, Append(cur, s[i]))

Split(s, sep) == SplitFrom(s, sep, 1, <<>>)

\* sep.join(l)
RECURSIVE Join(_, _)
Join(sep, l) ==
    IF l = <<>> THEN <<>>
    ELSE IF Len(l) = 1 THEN l[1]
    ELSE l[1] \o sep \o Join(sep, Tail(l))

\* d.update(e)
RECURSIVE Update(_, _)
Update(d, e) ==
    IF e = <<>> THEN d ELSE Update(Put(d, e[1][1], e[1][2]), Tail(e))

-----------------------------------------------------------------------------
(* lib.context *)

\* os.environ.copy() updated with the project and the root only
lib_context_unmarked(env, root, project) ==
    Update(env, << <<<<"B", "E", "_", "P", "R", "O", "J", "E", "C", "T">>, project>>, <<<<"B", "E", "_", "C", "W", "D">>, root>> >>)

\* os.environ.copy() updated with the be variables
lib_context(env, root, project) ==
    Update(env,
        << <<<<"B", "E", "_", "P", "R", "O", "J", "E", "C", "T">>, project>>,
           <<<<"B", "E", "_", "P", "R", "O", "J", "E", "C", "T", "R", "O", "O", "T">>,
             IF project # <<>>
             THEN Replace(root \o <<"/">> \o project, "\\", "/") ELSE <<>>>>,
           <<<<"B", "E", "_", "P", "R", "O", "J", "E", "C", "T", "S", "R", "O", "O", "T">>, root>>,
           <<<<"B", "E", "_", "A", "L", "I", "A", "S", "D", "I", "R">>, <<>>>>,
           <<<<"B", "E", "_", "C", "W", "D">>, root>>,
           <<<<"B", "E", "_", "C", "D">>, <<>>>>,
           <<<<"B", "E", "_", "R", "O", "O", "T">>, <<>>>>,
           <<<<"B", "E", "_", "T", "O", "P", "I", "C", "S">>, <<>>>>,
           <<<<"B", "E", "_", "D", "E", "V", "E", "L", "O", "P", "M", "E", "N", "T", "D", "I", "R">>, <<>>>>,
           <<<<"B", "E", "_", "A", "C", "T", "I", "V", "E">>, <<"1">>>>,
           <<<<"B", "E", "_", "U", "S", "E", "R">>, <<>>>>,
           <<<<"B", "E", "_", "S", "C", "R", "I", "P", "T">>, <<>>>>,
           <<<<"B", "E", "_", "P", "Y", "T", "H", "O", "N">>, <<>>>>,
           <<<<"B", "E", "_", "E", "N", "T", "E", "R">>, <<>>>>,
           <<<<"B", "E", "_", "T", "E", "M", "P", "D", "I", "R">>, <<>>>>,
           <<<<"B", "E", "_", "P", "R", "E", "S", "E", "T", "S", "D", "I", "R">>, <<>>>>,
           <<<<"B", "E", "_", "G", "I", "T", "H", "U", "B", "_", "A", "P", "I", "_", "T", "O", "K", "E", "N">>, <<>>>>,
           <<<<"B", "E", "_", "E", "N", "V", "I", "R", "O", "N", "M", "E", "N", "T">>, <<>>>>,
           <<<<"B", "E", "_", "B", "I", "N", "D", "I", "N", "G">>, <<>>>>,
           <<<<"B", "E", "_", "T", "A", "B", "C", "O", "M", "P", "L", "E", "T", "I", "O", "N">>, <<>>>> >>)

-----------------------------------------------------------------------------
(* lib.fixed_development_directory *)

\* the keyword arguments of the format call
FixedKeys(cwd, project, it, user, task) ==
    << <<<<"c", "w", "d">>, cwd>>,
       <<<<"p", "r", "o", "j", "e", "c", "t">>, project>>,
       <<<<"i", "t", "e", "m">>, Replace(it, "\\", "/")>>,
       <<<<"u", "s", "e", "r">>, user>>,
       <<<<"t", "a", "s", "k">>, task>>,
       <<<<"t", "y", "p", "e">>, task>> >>

\* lines 422-439, once the topic is split and the pattern found:
\* [result, echoed]
FormatFixedDirectory(pattern, cwd, project, it, user, task) ==
    IF find_positional_arguments(pattern) # <<>>
    THEN [result |-> Exit(USER_ERROR),
          echoed |-> <<Line("uses a positional syntax", project, <<>>),
                       Line("Try this:", <<>>, <<>>),
                       Line("  be in",
                            Join(<<" ">>, <<project, it, task>>), <<>>)>>]
    ELSE LET keys == FixedKeys(cwd, project, it, user, task)
             f == Format(pattern, <<>>, keys)
         IN  IF f.kind = "return"
             THEN [result |-> Return(Replace(f.value, "\\", "/")),
                   echoed |-> <<>>]
             ELSE IF f.exc = "KeyError"
             THEN [result |-> Exit(1),
                   echoed |->
                       <<Line("TEMPLATE ERROR: is not an available key",
                              f.value, <<>>),
                         Line("Available keys", <<>>, <<>>)>>
                       \o [i \in 1..Len(keys) |->
                              Line("- ", keys[i][1], <<>>)]]
             ELSE [result |-> f, echoed |-> <<>>]

FixedDeprecated ==
    Line("Fixed syntax has been deprecated, see positional syntax",
         <<>>, <<>>)

\* [result, bindings (the memo cache afterwards), echoed]
fixed_development_directory(cache, tmpl, inv, t, user, cwd) ==
    IF t = <<>>
    THEN [result |-> Raise("IndexError", 0, <<>>), bindings |-> cache,
          echoed |-> <<FixedDeprecated>>]
    ELSE LET parts == Split(t[1], "/")
         IN  IF Len(parts) # 3
             THEN [result |-> Raise("ValueError", 0, <<>>),
                   bindings |-> cache, echoed |-> <<FixedDeprecated>>]
             ELSE LET b == binding_from_item(cache, inv, parts[2])
                  IN  IF b.result.kind # "return"
                      THEN [b EXCEPT !.echoed = <<FixedDeprecated>> \o @]
                      ELSE LET pt == pattern_from_template(tmpl, b.result.value)
                           IN  IF pt.result.kind # "return"
                               THEN [result |-> pt.result,
                                     bindings |-> b.bindings,
                                     echoed |-> <<FixedDeprecated>>
                                                \o b.echoed \o pt.echoed]
                               ELSE LET d == FormatFixedDirectory(
                                                 pt.result.value, cwd,
                                                 parts[1], parts[2], user,
                                                 parts[3])
                                    IN  [result |-> d.result,
                                         bindings |-> b.bindings,
                                         echoed |-> <<FixedDeprecated>>
                                                    \o b.echoed \o d.echoed]
-----------------------------------------------------------------------------
(* lib.parse_redirect *)

\* the positional source {N} is read as the N-th topic counted from one
RECURSIVE parse_redirect_from_one_based(_, _, _, _)
parse_redirect_from_one_based(redirect, k, t, ctx) ==
    IF k > Len(redirect) THEN [result |-> ReturnDict(ctx), context |-> ctx]
    ELSE LET map_source == redirect[k][1]
             map_dest == redirect[k][2]
         IN  IF MatchKey(map_source)
             THEN LET s == Strip(map_source, {"{", "}"})
                  IN  IF ~IsInt(s)
                      THEN [result |-> Raise("ValueError", 0, <<>>),
                            context |-> ctx]
                      ELSE IF StrToInt(s) > Len(t) \/ StrToInt(s) = 0
                      THEN [result |-> Raise("IndexError", 0, <<>>),
                            context |-> ctx]
                      ELSE parse_redirect_from_one_based(
                               redirect, k + 1, t,
                               Put(ctx, map_dest, t[StrToInt(s)]))
             ELSE IF ~HasKey(ctx, map_source)
             THEN [result |-> RaiseKey(map_source), context |-> ctx]
             ELSE parse_redirect_from_one_based(
                      redirect, k + 1, t,
                      Put(ctx, map_dest, Get(ctx, map_source)))

\* the loop over redirect.items() from its k-th pair on: [result, context]
RECURSIVE parse_redirect_from(_, _, _, _)
parse_redirect_from(redirect, k, t, ctx) ==
    IF k > Len(redirect) THEN [result |-> ReturnDict(ctx), context |-> ctx]
    ELSE LET map_source == redirect[k][1]
             map_dest == redirect[k][2]
         IN  IF MatchKey(map_source)
             THEN LET s == Strip(map_source, {"{", "}"})
                  IN  IF ~IsInt(s)
                      THEN [result |-> Raise("ValueError", 0, <<>>),
                            context |-> ctx]
                      ELSE IF StrToInt(s) >= Len(t)
                      THEN [result |-> Raise("IndexError", 0, <<>>),
                            context |-> ctx]
                      ELSE parse_redirect_from(
                               redirect, k + 1, t,
                               Put(ctx, map_dest, t[StrToInt(s) + 1]))
             ELSE IF ~HasKey(ctx, map_source)
             THEN [result |-> RaiseKey(map_source), context |-> ctx]
             ELSE parse_redirect_from(
                      redirect, k + 1, t,
                      Put(ctx, map_dest, Get(ctx, map_source)))

parse_redirect(redirect, t, ctx) == parse_redirect_from(redirect, 1, t, ctx)

-----------------------------------------------------------------------------
(* lib.parse_environment *)

\* A value that is a number and not a str is written as this tag followed
\* by the digits of the number.
IntTag == "<int>"

Num(n) == <<IntTag>> \o IntToStr(n)

\* isinstance(v, str)
IsString(v) == \A i \in 1..Len(v) : v[i] # IntTag

\* all(isinstance(v, str) for v in context.values())
AllStrings(ctx) == \A i \in 1..Len(ctx) : IsString(ctx[i][2])

\* A value of the environment section is a string, a number, or a list of
\* strings when `islist`.
EnvStr(s) == [islist |-> FALSE, s |-> s, l |-> <<>>]

EnvNum(n) == [islist |-> FALSE, s |-> Num(n), l |-> <<>>]

EnvList(l) == [islist |-> TRUE, s |-> <<>>, l |-> l]

\* first pass: os.pathsep.join(value) for every list
_resolve_environment_lists(fields, pathsep) ==
    [i \in 1..Len(fields) |->
        <<fields[i][1],
          IF fields[i][2].islist
          THEN EnvStr(Join(pathsep, fields[i][2].l))
          ELSE fields[i][2]>>]

\* pat.sub(repl, pattern) for "\$\w+" from position i, where repl returns
\* src[name] and calls sys.exit when name is no key of src:
\* [ok, value, missing]
RECURSIVE SubDollar(_, _, _)
SubDollar(p, i, src) ==
    IF i > Len(p) THEN [ok |-> TRUE, value |-> <<>>, missing |-> <<>>]
    ELSE IF p[i] = "$" /\ WordRun(p, i + 1) >= 1
    THEN LET e == i + WordRun(p, i + 1)
             name == Strip(SubSeq(p, i, e), {"$"})
         IN  IF ~HasKey(src, name)
             THEN [ok |-> FALSE, value |-> <<>>, missing |-> name]
             ELSE LET rest == SubDollar(p, e + 1, src)
                  IN  IF rest.ok
                      THEN [rest EXCEPT !.value = Get(src, name) \o @]
                      ELSE rest
    ELSE LET rest == SubDollar(p, i + 1, src)
         IN  IF rest.ok THEN [rest EXCEPT !.value = <<p[i]>> \o @] ELSE rest

\* a placeholder whose name is no key of src stays in the value as text
RECURSIVE SubFieldsLenient(_, _, _)
SubFieldsLenient(p, i, src) ==
    IF i > Len(p) THEN [ok |-> TRUE, value |-> <<>>, missing |-> <<>>]
    ELSE IF /\ p[i] = "{"
            /\ WordRun(p, i + 1) >= 1
            /\ i + 1 + WordRun(p, i + 1) <= Len(p)
            /\ p[i + 1 + WordRun(p, i + 1)] = "}"
            /\ HasKey(src, SubSeq(p, i + 1, i + WordRun(p, i + 1)))
    THEN LET e == i + 1 + WordRun(p, i + 1)
             rest == SubFieldsLenient(p, e + 1, src)
         IN  [rest EXCEPT !.value = Get(src, SubSeq(p, i + 1, e - 1)) \o @]
    ELSE LET rest == SubFieldsLenient(p, i + 1, src)
         IN  [rest EXCEPT !.value = <<p[i]>> \o @]

\* re.sub("{[\d\w]+}", repl, pattern) from position i: [ok, value, missing]
RECURSIVE SubFields(_, _, _)
SubFields(p, i, src) ==
    IF i > Len(p) THEN [ok |-> TRUE, value |-> <<>>, missing |-> <<>>]
    ELSE IF /\ p[i] = "{"
            /\ WordRun(p, i + 1) >= 1
            /\ i + 1 + WordRun(p, i + 1) <= Len(p)
            /\ p[i + 1 + WordRun(p, i + 1)] = "}"
    THEN LET e == i + 1 + WordRun(p, i + 1)
             name == Strip(SubSeq(p, i, e), {"{", "}"})
         IN  IF ~HasKey(src, name)
             THEN [ok |-> FALSE, value |-> <<>>, missing |-> name]
             ELSE LET rest == SubFields(p, e + 1, src)
                  IN  IF rest.ok
                      THEN [rest EXCEPT !.value = Get(src, name) \o @]
                      ELSE rest
    ELSE LET rest == SubFields(p, i + 1, src)
         IN  IF rest.ok THEN [rest EXCEPT !.value = <<p[i]>> \o @] ELSE rest

\* topics.index(topic), counted from 0
TopicIndex(t, topic) ==
    (CHOOSE i \in 1..Len(t) :
        t[i] = topic /\ \A j \in 1..(i - 1) : t[j] # topic) - 1

\* every topic is entered under its own position
RECURSIVE TopicFieldsByPosition(_, _)
TopicFieldsByPosition(t, k) ==
    IF k > Len(t) THEN <<>>
    ELSE Put(TopicFieldsByPosition(t, k + 1), IntToStr(k - 1), t[k])

\* dict((str(topics.index(topic)), topic) for topic in topics)
RECURSIVE TopicFields(_, _)
TopicFields(t, k) ==
    IF k > Len(t) THEN <<>>
    ELSE Put(TopicFields(t, k + 1), IntToStr(TopicIndex(t, t[k])), t[k])

\* the source_dict of the third pass
SourceDict(ctx, t) ==
    Update(replacement_fields_from_context(ctx), TopicFields(t, 1))

\* the second pass hands a value that is not a string on as it is
RECURSIVE _resolve_environment_references_untyped(_, _, _, _)
_resolve_environment_references_untyped(snapshot, k, fields, ctx) ==
    IF k > Len(snapshot)
    THEN [result |-> ReturnDict(<<>>), fields |-> fields, echoed |-> <<>>]
    ELSE LET r == SubDollar(snapshot[k][2].s, 1, ctx)
         IN  IF r.ok
             THEN _resolve_environment_references_untyped(
                      snapshot, k + 1,
                      Put(fields, snapshot[k][1], EnvStr(r.value)), ctx)
             ELSE [result |-> Exit(USER_ERROR), fields |-> fields,
                   echoed |-> <<Line("ERROR: Unavailable fields variable",
                                     r.missing, <<>>)>>]

\* second pass, from the k-th pair of the copy on: [result, fields, echoed];
\* pat.sub raises TypeError for a pattern that is not a string
RECURSIVE _resolve_environment_references(_, _, _, _)
_resolve_environment_references(snapshot, k, fields, ctx) ==
    IF k > Len(snapshot)
    THEN [result |-> ReturnDict(<<>>), fields |-> fields, echoed |-> <<>>]
    ELSE IF ~IsString(snapshot[k][2].s)
    THEN [result |-> Raise("TypeError", 0, <<>>), fields |-> fields,
          echoed |-> <<>>]
    ELSE LET r == SubDollar(snapshot[k][2].s, 1, ctx)
         IN  IF r.ok
             THEN _resolve_environment_references(
                      snapshot, k + 1,
                      Put(fields, snapshot[k][1], EnvStr(r.value)), ctx)
             ELSE [result |-> Exit(USER_ERROR), fields |-> fields,
                   echoed |-> <<Line("ERROR: Unavailable fields variable",
                                     r.missing, <<>>)>>]

\* third pass, from the k-th pair of the copy on: [result, fields, echoed]
RECURSIVE _resolve_environment_fields(_, _, _, _)
_resolve_environment_fields(snapshot, k, fields, source_dict) ==
    IF k > Len(snapshot)
    THEN [result |-> ReturnDict(<<>>), fields |-> fields, echoed |-> <<>>]
    ELSE LET r == SubFields(snapshot[k][2].s, 1, source_dict)
         IN  IF r.ok
             THEN _resolve_environment_fields(
                      snapshot, k + 1,
                      Put(fields, snapshot[k][1], EnvStr(r.value)),
                      source_dict)
             ELSE [result |-> Exit(PROJECT_ERROR), fields |-> fields,
                   echoed |-> <<Line("PROJECT ERROR: Unavailable reference",
                                     r.missing, <<>>)>>]

\* the parsed mapping as key/string pairs
EnvStrings(fields) ==
    [i \in 1..Len(fields) |-> <<fields[i][1], fields[i][2].s>>]

\* the pass over the fields and topics is made before the pass over the
\* variables
parse_environment_fields_first(fields, ctx, t, pathsep) ==
    LET f1 == _resolve_environment_lists(fields, pathsep)
        f2 == _resolve_environment_fields(f1, 1, f1, SourceDict(ctx, t))
    IN  IF f2.result.kind # "return"
        THEN [result |-> f2.result, echoed |-> f2.echoed]
        ELSE LET f3 == _resolve_environment_references(
                           f2.fields, 1, f2.fields, ctx)
             IN  IF f3.result.kind # "return"
                 THEN [result |-> f3.result, echoed |-> f3.echoed]
                 ELSE [result |-> ReturnDict(EnvStrings(f3.fields)),
                       echoed |-> <<>>]

\* [result (the parsed dict in result.dict), echoed]
parse_environment(fields, ctx, t, pathsep) ==
    LET f1 == _resolve_environment_lists(fields, pathsep)
        f2 == _resolve_environment_references(f1, 1, f1, ctx)
    IN  IF f2.result.kind # "return"
        THEN [result |-> f2.result, echoed |-> f2.echoed]
        ELSE LET f3 == _resolve_environment_fields(
                           f2.fields, 1, f2.fields, SourceDict(ctx, t))
             IN  IF f3.result.kind # "return"
                 THEN [result |-> f3.result, echoed |-> f3.echoed]
                 ELSE [result |-> ReturnDict(EnvStrings(f3.fields)),
                       echoed |-> <<>>]
-----------------------------------------------------------------------------
(* The `in` command: its inputs *)

Cwd == <<"/", "w">>

Spiderman == <<"s", "p", "i", "d", "e", "r", "m", "a", "n">>

Peter == <<"p", "e", "t", "e", "r">>

Model == <<"m", "o", "d", "e", "l">>

AssetDir == <<"/", "w", "/", "s", "p", "i", "d", "e", "r", "m", "a", "n", "/", "a", "s", "s", "e", "t", "s", "/", "p", "e", "t", "e", "r", "/", "m", "o", "d", "e", "l">>

\* tempfile.mkdtemp()
MadeTempdir == <<"/", "t", "m", "p", "/", "t">>

\* a directory named by BE_TEMPDIR
GivenTempdir == <<"/", "b">>

User == <<"u">>

Str(s) == [isdict |-> FALSE, num |-> FALSE, s |-> s, n |-> 0]

\* project, item and task as three topics or as one; an item the
\* inventories do not list; a project only; a project that does not exist
InTopics ==
    {<<Spiderman, Peter, Model>>,
     <<<<"s", "p", "i", "d", "e", "r", "m", "a", "n", "/", "p", "e", "t", "e", "r", "/", "m", "o", "d", "e", "l">>>>,
     <<Spiderman, <<"h", "u", "l", "k">>, Model>>,
     <<Spiderman>>,
     <<<<"v", "e", "n", "o", "m">>, Peter, Model>>}

\* templates.yaml: named fields only; positional; positional with a
\* reference and with a pattern under the number 1; positional without a
\* pattern for the binding "asset"
InTemplates ==
    {<< <<<<"a", "s", "s", "e", "t">>, <<"{", "c", "w", "d", "}", "/", "{", "p", "r", "o", "j", "e", "c", "t", "}", "/", "a", "s", "s", "e", "t", "s", "/", "{", "i", "t", "e", "m", "}", "/", "{", "t", "y", "p", "e", "}">>>> >>,
     << <<<<"a", "s", "s", "e", "t">>, <<"{", "c", "w", "d", "}", "/", "{", "0", "}", "/", "a", "s", "s", "e", "t", "s", "/", "{", "1", "}", "/", "{", "2", "}">>>> >>,
     << <<<<"a", "s", "s", "e", "t">>, <<"{", "@", "r", "o", "o", "t", "}", "/", "a", "s", "s", "e", "t", "s", "/", "{", "1", "}", "/", "{", "2", "}">>>>,
        <<<<"r", "o", "o", "t">>, <<"{", "c", "w", "d", "}", "/", "{", "0", "}">>>>,
        <<Num(1), <<"{", "@", "r", "o", "o", "t", "}", "/", "a", "s", "s", "e", "t", "s", "/", "{", "1", "}", "/", "{", "2", "}">>>> >>,
     << <<<<"s", "h", "o", "t">>, <<"{", "c", "w", "d", "}", "/", "{", "0", "}", "/", "s", "h", "o", "t", "s", "/", "{", "1", "}", "/", "{", "2", "}">>>> >>}

\* inventory.yaml: peter under asset; the whole fixed topic as an item too;
\* peter under two bindings; peter under the number 1; nothing
InInventories ==
    {<< <<<<"s", "h", "o", "t">>, <<Str(<<"m", "j">>)>>>>, <<<<"a", "s", "s", "e", "t">>, <<Str(Peter)>>>> >>,
     << <<<<"a", "s", "s", "e", "t">>, <<Str(Peter), Str(<<"s", "p", "i", "d", "e", "r", "m", "a", "n", "/", "p", "e", "t", "e", "r", "/", "m", "o", "d", "e", "l">>)>>>> >>,
     << <<<<"a", "s", "s", "e", "t">>, <<Str(Peter)>>>>, <<<<"s", "h", "o", "t">>, <<Str(Peter)>>>> >>,
     << <<Num(1), <<Str(Peter)>>>> >>,
     <<>>}

\* be.yaml
InBe ==
    {NoBe,
     [NoBe EXCEPT !.key = <<"{", "0", "}">>],
     [NoBe EXCEPT !.key = <<"i", "t", "e", "m">>],
     [NoBe EXCEPT !.script = TRUE, !.python = TRUE,
                  !.alias = << <<<<"g", "o">>, <<"c", "d">>>> >>,
                  !.hasenv = TRUE,
                  !.environment = << <<<<"B", "E", "_", "S", "H", "E", "L", "L">>, EnvStr(<<"m", "i", "n", "e">>)>>,
                                     <<<<"B", "E", "_", "U", "S", "E", "R">>, EnvStr(<<"b", "o", "s", "s">>)>> >>],
     [NoBe EXCEPT !.redirect = << <<<<"{", "0", "}">>, <<"S", "H", "O", "W">>>>,
                                  <<<<"B", "E", "_", "U", "S", "E", "R">>, <<"W", "H", "O">>>>,
                                  <<<<"P", "A", "T", "H">>, <<"O", "L", "D">>>> >>,
                  !.hasenv = TRUE,
                  !.environment =
                      << <<<<"W", "H", "O">>, EnvStr(<<"$", "B", "E", "_", "U", "S", "E", "R", "/", "{", "1", "}">>)>>,
                         <<<<"P", "A", "T", "H">>, EnvList(<<<<"{", "c", "w", "d", "}">>, <<"$", "P", "A", "T", "H">>>>)>> >>],
     [NoBe EXCEPT !.redirect = << <<<<"{", "3", "}">>, <<"S", "H", "O", "T">>>> >>],
     [NoBe EXCEPT !.hasenv = TRUE,
                  !.environment = << <<<<"X">>, EnvStr(<<"{", "n", "o", "p", "e", "}">>)>> >>],
     [NoBe EXCEPT !.hasenv = TRUE,
                  !.environment = << <<<<"V">>, EnvNum(3)>> >>]}

\* os.environ
InEnviron ==
    {<< <<<<"P", "A", "T", "H">>, <<"/", "b", "i", "n">>>> >>,
     << <<<<"P", "A", "T", "H">>, <<"/", "b", "i", "n">>>>, <<<<"B", "E", "_", "T", "E", "S", "T", "I", "N", "G">>, <<"1">>>> >>,
     << <<<<"B", "E", "_", "T", "E", "M", "P", "D", "I", "R">>, GivenTempdir>> >>,
     << <<<<"P", "A", "T", "H">>, <<"/", "b", "i", "n">>>>, <<<<"B", "E", "_", "A", "C", "T", "I", "V", "E">>, <<"1">>>> >>}

\* the directories that exist, and whether the project has its yaml files,
\* on a posix host
InFs ==
    {[dirs |-> {Cwd \o <<"/">> \o Spiderman}, cwd |-> Cwd,
      configured |-> TRUE, os |-> "posix"],
     [dirs |-> {Cwd \o <<"/">> \o Spiderman, AssetDir}, cwd |-> Cwd,
      configured |-> TRUE, os |-> "posix"],
     [dirs |-> {Cwd \o <<"/">> \o Spiderman, AssetDir, GivenTempdir,
                GivenTempdir \o <<"/", "a", "l", "i", "a", "s", "e", "s">>},
      cwd |-> Cwd, configured |-> TRUE, os |-> "posix"],
     [dirs |-> {Cwd \o <<"/">> \o Spiderman}, cwd |-> Cwd,
      configured |-> FALSE, os |-> "posix"]}

\* the memo cache of the process: empty, or left by an earlier call
InBindings == {<<>>, << <<<<"h", "u", "l", "k">>, <<"s", "h", "o", "t">>>> >>}

\* the shell be was called from
Shells == {<<"/", "b", "i", "n", "/", "b", "a", "s", "h">>, <<"/", "b", "i", "n", "/", "z", "s", "h">>}

\* os.pathsep
pathsep == IF fs.os = "nt" THEN <<";">> ELSE <<":">>

InitIn ==
    /\ pc = "start"
    /\ key = <<>>
    /\ topics \in InTopics
    /\ inventory \in InInventories
    /\ loaded \in InTemplates
    /\ templates = <<>>
    /\ context = <<>>
    /\ item = <<>>
    /\ bindings \in InBindings
    /\ result = NoResult
    /\ echoed = <<>>
    /\ environ \in InEnviron
    /\ be \in InBe
    /\ opts \in [yes : BOOLEAN, enter : BOOLEAN, as_ : {User}]
    /\ fs \in InFs
    /\ frame = NoFrame
    /\ launched = NotLaunched
-----------------------------------------------------------------------------
(* The `in` command, cli.in_, step by step *)

\* sys.exit, or an exception nothing catches, ends the process
Terminate(r, lines) ==
    /\ pc' = "exited"
    /\ result' = r
    /\ echoed' = echoed \o lines

\* lib.list_projects as ls echoes it
ProjectLines ==
    IF Cwd \o <<"/">> \o Spiderman \in fs.dirs
    THEN <<Line("- (project)", Spiderman, <<>>)>> ELSE <<>>

\* "/".join(topics) for positional topics under fixed templates,
\* topics[0].split("/") for a fixed topic under positional templates
RemapTopics(t, topic_syntax, template_syntax) ==
    IF topic_syntax = POSITIONAL /\ template_syntax # POSITIONAL
    THEN <<Join(<<"/">>, t)>>
    ELSE IF topic_syntax = FIXED /\ template_syntax # FIXED
    THEN Split(t[1], "/")
    ELSE t

\* any(re.findall("{\d+}", pattern) for pattern in templates.values())
TemplateSyntax(tmpl) ==
    IF \E i \in 1..Len(tmpl) : FindAllWidePositional(tmpl[i][2], 1) # <<>>
    THEN POSITIONAL ELSE FIXED

\* lines 106-151: refuse a nested context, find the project, load its
\* files, build the context and remap the topics
InBoot ==
    /\ pc = "start"
    /\ LET parts == Split(topics[1], "/")
           topic_syntax == IF Len(parts) = 3 THEN FIXED ELSE POSITIONAL
           project == IF Len(parts) = 3 THEN parts[1] ELSE topics[1]
           resolved == _resolve_references(loaded)
           template_syntax == TemplateSyntax(resolved.templates)
       IN  IF HasKey(environ, <<"B", "E", "_", "A", "C", "T", "I", "V", "E">>)
           THEN /\ Terminate(Exit(USER_ERROR),
                             <<Line("ERROR: Exit current project first",
                                    <<>>, <<>>)>>)
                /\ UNCHANGED <<topics, templates, context, frame>>
           ELSE IF fs.cwd \o <<"/">> \o project \notin fs.dirs
           THEN \* ls lists the projects and exits itself
                /\ Terminate(Exit(NORMAL),
                             <<Line("Project not found.", project, <<>>),
                               Line("Available:", <<>>, <<>>)>>
                             \o ProjectLines)
                /\ UNCHANGED <<topics, templates, context, frame>>
           ELSE IF ~fs.configured
           THEN /\ Terminate(Exit(USER_ERROR),
                             <<Line("ERROR: be.yaml not defined for project",
                                    project, <<>>)>>)
                /\ UNCHANGED <<topics, templates, context, frame>>
           ELSE IF resolved.result.kind # "return"
           THEN /\ Terminate(resolved.result, resolved.echoed)
                /\ UNCHANGED <<topics, templates, context, frame>>
           ELSE /\ pc' = "select"
                /\ templates' = resolved.templates
                /\ context' =
                       Update(lib_context(environ, fs.cwd, project),
                              << <<<<"B", "E", "_", "P", "R", "O", "J", "E", "C", "T">>, project>>,
                                 <<<<"B", "E", "_", "U", "S", "E", "R">>, opts.as_>>,
                                 <<<<"B", "E", "_", "E", "N", "T", "E", "R">>,
                                   IF opts.enter THEN <<"1">> ELSE <<>>>>,
                                 <<<<"B", "E", "_", "T", "O", "P", "I", "C", "S">>, Join(<<" ">>, topics)>> >>)
                /\ topics' = RemapTopics(topics, topic_syntax, template_syntax)
                /\ frame' = [frame EXCEPT !.project = project,
                                          !.topic_syntax = topic_syntax,
                                          !.template_syntax = template_syntax]
                /\ UNCHANGED <<result, echoed>>
    /\ UNCHANGED <<key, inventory, loaded, item, bindings, environ, be, opts,
                   fs, launched>>

\* (binding, item) < (binding, item) as Python orders tuples of strings
PairLess(a, b) == StrLess(a[2], b[2]) \/ (a[2] = b[2] /\ StrLess(a[1], b[1]))

\* sorted(exc.bindings, key=lambda a: (exc.bindings[a], a)) with its binding
RECURSIVE SortedListing(_)
SortedListing(d) ==
    IF d = <<>> THEN <<>>
    ELSE LET m == CHOOSE i \in 1..Len(d) :
                      \A j \in 1..Len(d) : j = i \/ PairLess(d[i], d[j])
         IN  <<d[m]>>
             \o SortedListing([j \in 1..(Len(d) - 1) |->
                                  IF j < m THEN d[j] ELSE d[j + 1]])

\* the except KeyError branch: the item, then every entry of exc.bindings
NotFoundLines(it, d) ==
    <<Line("not found", it, <<>>)>>
    \o (IF d = <<>> THEN <<>>
        ELSE <<Line("Available:", <<>>, <<>>)>>
             \o [i \in 1..Len(d) |->
                    Line("- ", SortedListing(d)[i][1], SortedListing(d)[i][2])])

\* lines 153-169: the item from the key, its binding from the inventory
InSelect ==
    /\ pc = "select"
    /\ key' = IF be.key = <<>> THEN <<"{", "1", "}">> ELSE be.key
    /\ LET it == item_from_topics(key', topics)
           b == binding_from_item(bindings, inventory, it.value)
       IN  IF it.kind = "raise" /\ it.exc = "IndexError"
           THEN /\ Terminate(Exit(USER_ERROR),
                             <<Line("At least topics are required",
                                    IntToStr(it.arg), <<>>)>>)
                /\ UNCHANGED <<item, bindings, context, frame>>
           ELSE IF it.kind # "return"
           THEN /\ Terminate(it, item_from_topics_echo(key'))
                /\ UNCHANGED <<item, bindings, context, frame>>
           ELSE IF b.result.kind = "raise"
           THEN /\ Terminate(Exit(USER_ERROR),
                             b.echoed \o NotFoundLines(it.value, b.result.dict))
                /\ item' = it.value
                /\ bindings' = b.bindings
                /\ UNCHANGED <<context, frame>>
           ELSE /\ pc' = "devdir"
                /\ item' = it.value
                /\ bindings' = b.bindings
                /\ context' = Put(context, <<"B", "E", "_", "B", "I", "N", "D", "I", "N", "G">>, b.result.value)
                /\ frame' = [frame EXCEPT !.binding = b.result.value]
                /\ echoed' = echoed \o b.echoed
                /\ UNCHANGED result
    /\ UNCHANGED <<topics, inventory, loaded, templates, environ, be, opts,
                   fs, launched>>

\* lines 173-198: the development directory, by the syntax of the templates
InDevelopmentDir ==
    /\ pc = "devdir"
    /\ LET r == IF frame.template_syntax = POSITIONAL
                THEN pos_development_directory(bindings, templates, inventory,
                                               context, topics, item)
                ELSE fixed_development_directory(bindings, templates,
                                                 inventory, topics, opts.as_,
                                                 fs.cwd)
       IN  /\ bindings' = r.bindings
           /\ IF r.result.kind = "return"
              THEN /\ pc' = "tempdir"
                   /\ context' = Put(context, <<"B", "E", "_", "D", "E", "V", "E", "L", "O", "P", "M", "E", "N", "T", "D", "I", "R">>,
                                     r.result.value)
                   /\ frame' = [frame EXCEPT
                                    !.development_dir = r.result.value]
                   /\ echoed' = echoed \o r.echoed
                   /\ UNCHANGED result
              ELSE IF /\ frame.template_syntax = POSITIONAL
                      /\ r.result.kind = "raise"
                      /\ r.result.exc = "KeyError"
              THEN /\ Terminate(Exit(USER_ERROR),
                                r.echoed
                                \o NotFoundLines(item, r.result.dict))
                   /\ UNCHANGED <<context, frame>>
              ELSE /\ Terminate(r.result, r.echoed)
                   /\ UNCHANGED <<context, frame>>
    /\ UNCHANGED <<key, topics, inventory, loaded, templates, item, environ,
                   be, opts, fs, launched>>

\* os.environ.get("BE_TEMPDIR"), None when unset
EnvironTempdir ==
    IF HasKey(environ, <<"B", "E", "_", "T", "E", "M", "P", "D", "I", "R">>) THEN Get(environ, <<"B", "E", "_", "T", "E", "M", "P", "D", "I", "R">>)
    ELSE <<>>

\* lines 200-203: a fresh temporary directory unless BE_TEMPDIR names one
InTempdir ==
    /\ pc = "tempdir"
    /\ pc' = "enter"
    /\ LET made == EnvironTempdir = <<>>
           tempdir == IF made THEN MadeTempdir ELSE EnvironTempdir
       IN  /\ frame' = [frame EXCEPT !.tempdir = tempdir, !.owned = made]
           /\ fs' = IF made THEN [fs EXCEPT !.dirs = @ \cup {tempdir}] ELSE fs
           /\ context' = Put(context, <<"B", "E", "_", "T", "E", "M", "P", "D", "I", "R">>, tempdir)
    /\ UNCHANGED <<key, topics, inventory, loaded, templates, item, bindings,
                   result, echoed, environ, be, opts, launched>>

\* what the user may type at the prompt
Answers == {<<>>, <<"y">>, <<"Y", "E", "S">>, <<"n">>}

\* lines 206-219: with --enter, make the development directory or cancel
InEnter ==
    /\ pc = "enter"
    /\ IF opts.enter /\ frame.development_dir \notin fs.dirs
       THEN \E answer \in Answers :
                IF opts.yes \/ ToLower(answer) \in {<<>>, <<"y">>, <<"y", "e", "s">>}
                THEN /\ pc' = "scripts"
                     /\ fs' = [fs EXCEPT !.dirs = @ \cup {frame.development_dir}]
                     /\ UNCHANGED <<result, echoed>>
                ELSE /\ Terminate(Exit(NORMAL), <<>>)
                     /\ UNCHANGED fs
       ELSE /\ pc' = "scripts"
            /\ UNCHANGED <<result, echoed, fs>>
    /\ UNCHANGED <<key, topics, inventory, loaded, templates, context, item,
                   bindings, environ, be, opts, frame, launched>>

\* lines 222-235: the script is written to the temporary directory, the
\* python lines are executed and whatever they raise is echoed, and every
\* value of the context is asserted to be a string
InScripts ==
    /\ pc = "scripts"
    /\ IF be.script /\ frame.tempdir \notin fs.dirs
       THEN /\ Terminate(Raise("IOError", 0, <<>>), <<>>)
            /\ UNCHANGED context
       ELSE \E failed \in (IF be.python THEN BOOLEAN ELSE {FALSE}) :
                /\ context' =
                       Update(context,
                              (IF be.script
                               THEN << <<<<"B", "E", "_", "S", "C", "R", "I", "P", "T">>,
                                         Replace(frame.tempdir
                                                 \o <<"/", "s", "c", "r", "i", "p", "t", ".", "s", "h">>,
                                                 "\\", "/")>> >>
                               ELSE <<>>)
                              \o (IF be.python
                                  THEN << <<<<"B", "E", "_", "P", "Y", "T", "H", "O", "N">>, <<"p", "a", "s", "s">>>> >>
                                  ELSE <<>>))
                /\ echoed' = IF failed
                             THEN Append(echoed, Line("ERROR: ", <<>>, <<>>))
                             ELSE echoed
                /\ IF AllStrings(context')
                   THEN /\ pc' = "aliases"
                        /\ UNCHANGED result
                   ELSE /\ pc' = "exited"
                        /\ result' = Raise("AssertionError", 0, <<>>)
    /\ UNCHANGED <<key, topics, inventory, loaded, templates, item, bindings,
                   environ, be, opts, fs, frame, launched>>

\* lines 238-244: the aliases directory is made below the temporary
\* directory, os.makedirs raising OSError when it is there already
InAliases ==
    /\ pc = "aliases"
    /\ LET aliases_dir == frame.tempdir \o <<"/", "a", "l", "i", "a", "s", "e", "s">>
       IN  IF aliases_dir \in fs.dirs
           THEN /\ Terminate(Raise("OSError", 0, <<>>), <<>>)
                /\ UNCHANGED <<context, fs>>
           ELSE /\ pc' = "redirect"
                /\ fs' = [fs EXCEPT !.dirs = @ \cup {frame.tempdir, aliases_dir}]
                /\ context' =
                       Update(context,
                              << <<<<"P", "A", "T", "H">>,
                                   aliases_dir \o pathsep
                                   \o (IF HasKey(context, <<"P", "A", "T", "H">>)
                                       THEN Get(context, <<"P", "A", "T", "H">>)
                                       ELSE <<>>)>>,
                                 <<<<"B", "E", "_", "A", "L", "I", "A", "S", "D", "I", "R">>, aliases_dir>> >>)
                /\ UNCHANGED <<result, echoed>>
    /\ UNCHANGED <<key, topics, inventory, loaded, templates, item, bindings,
                   environ, be, opts, frame, launched>>

\* the redirection fails and the command goes on to the environment section
InRedirectCarryingOn ==
    /\ pc = "redirect"
    /\ pc' = "environment"
    /\ context' = parse_redirect(be.redirect, topics, context).context
    /\ UNCHANGED <<key, topics, inventory, loaded, templates, item, bindings,
                   result, echoed, environ, be, opts, fs, frame, launched>>

\* lines 247-248
InRedirect ==
    /\ pc = "redirect"
    /\ LET r == parse_redirect(be.redirect, topics, context)
       IN  /\ context' = r.context
           /\ IF r.result.kind = "return"
              THEN /\ pc' = "environment"
                   /\ UNCHANGED <<result, echoed>>
              ELSE Terminate(r.result, <<>>)
    /\ UNCHANGED <<key, topics, inventory, loaded, templates, item, bindings,
                   environ, be, opts, fs, frame, launched>>

\* lines 252-258
InEnvironment ==
    /\ pc = "environment"
    /\ IF ~be.hasenv
       THEN /\ pc' = "launch"
            /\ UNCHANGED <<context, result, echoed>>
       ELSE LET r == parse_environment(be.environment, context, topics,
                                       pathsep)
                parsed == r.result.dict
            IN  IF r.result.kind # "return"
                THEN /\ Terminate(r.result, r.echoed)
                     /\ UNCHANGED context
                ELSE /\ pc' = "launch"
                     /\ context' =
                            Update(Put(context, <<"B", "E", "_", "E", "N", "V", "I", "R", "O", "N", "M", "E", "N", "T">>,
                                       Join(<<" ">>,
                                            [i \in 1..Len(parsed) |->
                                                parsed[i][1]])),
                                   parsed)
                     /\ UNCHANGED <<result, echoed>>
    /\ UNCHANGED <<key, topics, inventory, loaded, templates, item, bindings,
                   environ, be, opts, fs, frame, launched>>

\* os.path.basename(parent).rsplit(".", 1)[0] in ("bash", "sh")
SupportedShell(parent) ==
    LET parts == Split(parent, "/")
    IN  Split(parts[Len(parts)], ".")[1] \in {<<"b", "a", "s", "h">>, <<"s", "h">>}

\* lines 260-271: under BE_TESTING the process itself enters the context,
\* otherwise the subshell is started with the context as its environment
InLaunch ==
    /\ pc = "launch"
    /\ IF HasKey(context, <<"B", "E", "_", "T", "E", "S", "T", "I", "N", "G">>)
       THEN IF frame.development_dir \notin fs.dirs
            THEN /\ Terminate(Raise("OSError", 0, <<>>), <<>>)
                 /\ UNCHANGED <<context, environ, fs, launched>>
            ELSE /\ pc' = "exited"
                 /\ result' = Return(<<>>)
                 /\ fs' = [fs EXCEPT !.cwd = frame.development_dir]
                 /\ environ' = Update(environ, context)
                 /\ UNCHANGED <<context, echoed, launched>>
       ELSE \E parent \in Shells :
                IF ~SupportedShell(parent)
                THEN /\ Terminate(Raise("SystemError", 0, <<>>), <<>>)
                     /\ UNCHANGED <<context, environ, fs, launched>>
                ELSE /\ pc' = "shell"
                     /\ context' = Put(context, <<"B", "E", "_", "S", "H", "E", "L", "L">>, parent)
                     /\ launched' = [started |-> TRUE, env |-> context']
                     /\ UNCHANGED <<result, echoed, environ, fs>>
    /\ UNCHANGED <<key, topics, inventory, loaded, templates, item, bindings,
                   be, opts, frame>>

\* what the subshell may return
ShellCodes == {0, 1}

\* lines 271-274: the subshell ends, the temporary directory is removed and
\* be exits with the code of the subshell
InShellExit ==
    /\ pc = "shell"
    /\ \E code \in ShellCodes : Terminate(Exit(code), <<>>)
    /\ fs' = [fs EXCEPT !.dirs = @ \ {frame.tempdir,
                                      frame.tempdir \o <<"/", "a", "l", "i", "a", "s", "e", "s">>}]
    /\ UNCHANGED <<key, topics, inventory, loaded, templates, context, item,
                   bindings, environ, be, opts, frame, launched>>

NextIn ==
    \/ InBoot
    \/ InSelect
    \/ InDevelopmentDir
    \/ InTempdir
    \/ InEnter
    \/ InScripts
    \/ InAliases
    \/ InRedirect
    \/ InEnvironment
    \/ InLaunch
    \/ InShellExit

SpecIn == InitIn /\ [][NextIn]_vars
-----------------------------------------------------------------------------
(* Claims about the `in` command *)

\* the ids of the items of an inventory
InventoryIds(inv) ==
    {InventoryPairs(inv)[i][2] : i \in 1..Len(InventoryPairs(inv))}

\* the inverted inventory stated from the inventory: every id with the
\* binding of its first occurrence
InvertedSet(inv) ==
    {<<id, InventoryPairs(inv)[FirstOccurrence(inv, id)][1]>> :
        id \in InventoryIds(inv)}

\* the (item, binding) entries among the echoed lines
ListedSet(lines) ==
    {<<lines[i].a, lines[i].b>> :
        i \in {j \in 1..Len(lines) : lines[j].msg = "- "}}

\* in_ has taken an item from the topics and neither the memo cache nor
\* the inventory knows it
UnknownItemSelected ==
    /\ item # <<>>
    /\ ~HasKey(bindings, item)
    /\ item \notin InventoryIds(inventory)

\* the items a lookup is tried with
LookupItems == {Peter, <<"h", "u", "l", "k">>, <<"m", "j">>}

\* C4: for an item that is neither in the memo cache nor in the inverted
\* inventory, binding_from_item raises KeyError carrying the whole inverted
\* inventory of the inventory it was given, and `in` ends with USER_ERROR,
\* having listed every entry of it and without having started a subshell.
C4_UnknownItemIsUserError ==
    /\ pc = "select" =>
           \A it \in LookupItems :
               (~HasKey(bindings, it) /\ it \notin InventoryIds(inventory)) =>
                   LET r == binding_from_item(bindings, inventory, it).result
                   IN  /\ r.kind = "raise"
                       /\ r.exc = "KeyError"
                       /\ Len(r.dict) = Cardinality(InvertedSet(inventory))
                       /\ {r.dict[i] : i \in 1..Len(r.dict)}
                              = InvertedSet(inventory)
    /\ UnknownItemSelected =>
           /\ pc = "exited"
           /\ result = Exit(USER_ERROR)
           /\ ListedSet(echoed) = InvertedSet(inventory)
           /\ launched = NotLaunched

\* hulk is asked for, the cache is empty and the inventory lists mj under
\* shot and peter under asset: both are listed and be exits
C4_Witness ==
    /\ pc = "exited"
    /\ UnknownItemSelected
    /\ item = <<"h", "u", "l", "k">>
    /\ bindings = <<>>
    /\ Len(inventory) = 2
    /\ result = Exit(USER_ERROR)
    /\ ListedSet(echoed) = {<<<<"m", "j">>, <<"s", "h", "o", "t">>>>, <<Peter, <<"a", "s", "s", "e", "t">>>>}
    /\ launched = NotLaunched

\* the named-field template set, peter under asset, no key in be.yaml, and
\* the topics spiderman peter model given as three topics or as one
Scenario1 ==
    /\ loaded = << <<<<"a", "s", "s", "e", "t">>, <<"{", "c", "w", "d", "}", "/", "{", "p", "r", "o", "j", "e", "c", "t", "}", "/", "a", "s", "s", "e", "t", "s", "/", "{", "i", "t", "e", "m", "}", "/", "{", "t", "y", "p", "e", "}">>>> >>
    /\ be = NoBe
    /\ Peter \in InventoryIds(inventory)
    /\ Get(invert_inventory(inventory).inverted, Peter) = <<"a", "s", "s", "e", "t">>
    /\ HasKey(context, <<"B", "E", "_", "T", "O", "P", "I", "C", "S">>)
    /\ Get(context, <<"B", "E", "_", "T", "O", "P", "I", "C", "S">>)
           \in {<<"s", "p", "i", "d", "e", "r", "m", "a", "n", " ", "p", "e", "t", "e", "r", " ", "m", "o", "d", "e", "l">>, <<"s", "p", "i", "d", "e", "r", "m", "a", "n", "/", "p", "e", "t", "e", "r", "/", "m", "o", "d", "e", "l">>}

\* C1: in scenario 1, once `in` is past the selection of the item and the
\* development directory, the item is peter, the binding is asset and the
\* development directory is <cwd>/spiderman/assets/peter/model; `in` does
\* not end in an error before that.
C1_Scenario1Resolves ==
    (Scenario1 /\ pc \notin {"start", "select", "devdir"}) =>
        /\ item = Peter
        /\ frame.binding = <<"a", "s", "s", "e", "t">>
        /\ frame.development_dir = AssetDir
        /\ Get(context, <<"B", "E", "_", "B", "I", "N", "D", "I", "N", "G">>) = <<"a", "s", "s", "e", "t">>
        /\ Get(context, <<"B", "E", "_", "D", "E", "V", "E", "L", "O", "P", "M", "E", "N", "T", "D", "I", "R">>) = AssetDir

\* scenario 1 gets past the selection of the item
C1_Scenario1Selects == ~(Scenario1 /\ pc \notin {"start", "select", "exited"})

-----------------------------------------------------------------------------
(* Claims about an unresolvable reference *)

\* the name of the first {@name} token, in iteration order and then from
\* left to right, that names no key of the set
RECURSIVE FirstMissing(_, _)
FirstMissing(d, k) ==
    IF k > Len(d) THEN <<>>
    ELSE IF RefNames(d[k][2]) \subseteq Keys(d) THEN FirstMissing(d, k + 1)
    ELSE SubReferences(d[k][2], 1, d).missing

\* C11: when some pattern of the loaded template set holds a token {@x}
\* whose x is no key of the set, _resolve_references ends the process with
\* USER_ERROR and load_templates returns no template set, neither resolved
\* nor partially resolved.
C11_UnresolvableReferenceAbortsLoad ==
    (pc = "done" /\ ~AllResolvable(loaded)) =>
        /\ result = Exit(USER_ERROR)
        /\ result.dict = <<>>
        /\ echoed = <<Line("Unresolvable reference",
                           FirstMissing(loaded, 1), <<>>)>>

\* a = {k}/ resolves, b = {@c} names the key c that the set does not have
C11_Witness ==
    /\ pc = "done"
    /\ loaded = << <<<<"a">>, <<"{", "k", "}", "/">>>>, <<<<"b">>, <<"{", "@", "c", "}">>>> >>
    /\ result = Exit(USER_ERROR)
    /\ echoed = <<Line("Unresolvable reference", <<"c">>, <<>>)>>
-----------------------------------------------------------------------------
(* _extern.parse_environment and the functions next to it *)

\* _join_environment: os.pathsep.join(value) for every list
_join_environment(environment, sep) ==
    [i \in 1..Len(environment) |->
        <<environment[i][1],
          IF environment[i][2].islist
          THEN EnvStr(Join(sep, environment[i][2].l))
          ELSE environment[i][2]>>]

\* _parse_environment_pathsep: value.replace(wrong, right) for every value,
\* where right is ";" and wrong is ":" on nt and the reverse elsewhere.
\* Nothing in the package calls it.
_parse_environment_pathsep(environment, osname) ==
    [i \in 1..Len(environment) |->
        <<environment[i][1],
          EnvStr(IF osname = "nt"
                 THEN Replace(environment[i][2].s, ":", ";")
                 ELSE Replace(environment[i][2].s, ";", ":"))>>]

\* _resolve_environment from the k-th pair of the copy on:
\* [result, fields, echoed]
RECURSIVE _resolve_environment(_, _, _, _)
_resolve_environment(snapshot, k, environment, existing) ==
    IF k > Len(snapshot)
    THEN [result |-> ReturnDict(EnvStrings(environment)),
          fields |-> environment, echoed |-> <<>>]
    ELSE IF ~IsString(snapshot[k][2].s)
    THEN [result |-> Raise("TypeError", 0, <<>>), fields |-> environment,
          echoed |-> <<>>]
    ELSE LET r == SubDollar(snapshot[k][2].s, 1, existing)
         IN  IF r.ok
             THEN _resolve_environment(
                      snapshot, k + 1,
                      Put(environment, snapshot[k][1], EnvStr(r.value)),
                      existing)
             ELSE [result |-> Exit(USER_ERROR), fields |-> environment,
                   echoed |-> <<Line("ERROR: Unavailable environment variable",
                                     r.missing, <<>>)>>]

\* _extern.parse_environment: [result (the dict in result.dict), echoed]
extern_parse_environment(environment, existing, sep) ==
    LET joined == _join_environment(environment, sep)
        r == _resolve_environment(joined, 1, joined, existing)
    IN  [result |-> r.result, echoed |-> r.echoed]

-----------------------------------------------------------------------------
(* Specification of parse_environment over environment sections built from *)
(* references, placeholders and text                                       *)

MaxEnvTokens == 2

\* $A and {a}, {0}, {1} can be resolved, $N and {n} never can
EnvTokens ==
    {<<"$", "A">>, <<"$", "N">>, <<"{", "a", "}">>, <<"{", "n", "}">>, <<"{", "0", "}">>, <<"{", "1", "}">>, <<"x">>}

\* one key, or two keys in either iteration order
EnvKeyOrders == {<<<<"X">>>>, <<<<"X">>, <<"Y">>>>, <<<<"Y">>, <<"X">>>>}

\* the tokens ts dealt out to the keys ks as strings, cut at `cut`
DealEnv(ks, ts, cut) ==
    [m \in 1..Len(ks) |->
        <<ks[m],
          EnvStr(Concat(IF Len(ks) = 1 THEN ts
                        ELSE IF m = 1 THEN SubSeq(ts, 1, cut)
                        ELSE SubSeq(ts, cut + 1, Len(ts))))>>]

\* every section holding at most MaxEnvTokens tokens in all, every section
\* whose only value is a list of such tokens, PATH extended by a directory
\* after a semicolon, and a number
EnvSections ==
    {DealEnv(x[1], x[2], x[3]) :
        x \in {y \in EnvKeyOrders \X SeqsUpTo(EnvTokens, MaxEnvTokens)
                      \X (0..MaxEnvTokens) :
                 /\ y[3] <= Len(y[2])
                 /\ Len(y[1]) = 1 => y[3] = 0}}
    \cup {<< <<<<"X">>, EnvList(ts)>> >> :
             ts \in SeqsUpTo(EnvTokens, MaxEnvTokens)}
    \cup {<< <<<<"P", "A", "T", "H">>, EnvStr(<<"$", "P", "A", "T", "H", ";", "e", "x", "t", "r", "a">>)>> >>,
          << <<<<"X">>, EnvNum(3)>> >>}

\* A and BE_A (the field a) are defined, N and BE_N are not; the values
\* are plain, or hold tokens themselves; BE_0 and BE_1 are the fields 0
\* and 1
EnvContexts ==
    {<< <<<<"A">>, <<"v">>>>, <<<<"B", "E", "_", "A">>, <<"w">>>>, <<<<"B", "E", "_", "0">>, <<"z">>>>,
        <<<<"B", "E", "_", "1">>, <<"y">>>>, <<<<"P", "A", "T", "H">>, <<"/", "u", "s", "r", "/", "b", "i", "n">>>> >>,
     << <<<<"A">>, <<"{", "1", "}">>>>, <<<<"B", "E", "_", "A">>, <<"$", "N">>>> >>,
     << <<<<"A">>, <<"{", "n", "}">>>>, <<<<"B", "E", "_", "A">>, <<"{", "0", "}">>>> >>}

\* no topic, distinct topics, a topic given twice, a topic that is a token
EnvTopics ==
    {<<>>, <<<<"t">>>>, <<<<"t">>, <<"u">>>>, <<<<"t">>, <<"t">>>>,
     <<<<"u">>, <<"t">>, <<"u">>>>, <<<<"$", "N">>, <<"{", "n", "}">>>>}

InitEnv ==
    /\ pc = "ready"
    /\ key = <<>>
    /\ topics \in EnvTopics
    /\ inventory = <<>>
    /\ loaded = <<>>
    /\ templates = <<>>
    /\ context \in EnvContexts
    /\ item = <<>>
    /\ bindings = <<>>
    /\ result = NoResult
    /\ echoed = <<>>
    /\ environ = <<>>
    /\ be \in {[NoBe EXCEPT !.hasenv = TRUE, !.environment = e] :
                  e \in EnvSections}
    /\ opts = [yes |-> FALSE, enter |-> FALSE, as_ |-> <<>>]
    /\ fs \in {[dirs |-> {}, cwd |-> <<>>, configured |-> FALSE, os |-> o] :
                 o \in {"posix", "nt"}}
    /\ frame = NoFrame
    /\ launched = NotLaunched

\* parse_environment(fields=be["environment"], context=context,
\* topics=topics)
ParseEnvironment ==
    /\ pc = "ready"
    /\ pc' = "done"
    /\ LET r == parse_environment(be.environment, context, topics, pathsep)
       IN  /\ result' = r.result
           /\ echoed' = r.echoed
    /\ UNCHANGED <<key, topics, inventory, loaded, templates, context, item,
                   bindings, cli>>

\* _extern.parse_environment(be["environment"], context)
ExternParseEnvironment ==
    /\ pc = "ready"
    /\ pc' = "composed"
    /\ LET r == extern_parse_environment(be.environment, context, pathsep)
       IN  /\ result' = r.result
           /\ echoed' = r.echoed
    /\ UNCHANGED <<key, topics, inventory, loaded, templates, context, item,
                   bindings, cli>>

NextEnv ==
    \/ ParseEnvironment
    \/ ExternParseEnvironment

SpecEnv == InitEnv /\ [][NextEnv]_vars

-----------------------------------------------------------------------------
(* Claims about parse_environment *)

\* the value of a setting as written: a list is read with its elements
\* joined
SettingText(v) == IF v.islist THEN Join(pathsep, v.l) ELSE v.s

\* the names of the $NAME tokens of a value
DollarNames(p) ==
    {SubSeq(p, i + 1, i + WordRun(p, i + 1)) :
        i \in {j \in 1..Len(p) : p[j] = "$" /\ WordRun(p, j + 1) >= 1}}

\* the names of the {name} and {N} tokens of a value
FieldNames(p) ==
    {SubSeq(p, i + 1, i + WordRun(p, i + 1)) :
        i \in {j \in 1..Len(p) :
                 /\ p[j] = "{"
                 /\ WordRun(p, j + 1) >= 1
                 /\ j + 1 + WordRun(p, j + 1) <= Len(p)
                 /\ p[j + 1 + WordRun(p, j + 1)] = "}"}}

\* the lowered names of the BE_ variables of a context
PrefixFields(ctx) ==
    {ToLower(SubSeq(k, 4, Len(k))) :
        k \in {x \in Keys(ctx) : StartsWith(x, <<"B", "E", "_">>)}}

\* the positions, counted from 0, at which a topic value occurs first
FirstIndexes(t) ==
    {i - 1 : i \in {j \in 1..Len(t) : \A m \in 1..(j - 1) : t[m] # t[j]}}

\* the keys of the merged field and topic mapping
MergedKeys(ctx, t) ==
    PrefixFields(ctx) \cup {IntToStr(n) : n \in FirstIndexes(t)}

\* some setting holds a $NAME whose NAME is no key of the context
MissingVariable ==
    \E i \in 1..Len(be.environment) :
        ~(DollarNames(SettingText(be.environment[i][2])) \subseteq Keys(context))

\* some setting holds a {key} whose key is not in the merged mapping
MissingField ==
    \E i \in 1..Len(be.environment) :
        ~(FieldNames(SettingText(be.environment[i][2]))
              \subseteq MergedKeys(context, topics))

\* C12: when a settings value holds $NAME with NAME absent from the context
\* parse_environment ends the process with USER_ERROR; when none does and a
\* settings value holds {key} with key absent from the merged field and
\* topic mapping it ends the process with PROJECT_ERROR; in neither case
\* does it return a mapping.
C12_UnresolvedSettingIsFatal ==
    pc = "done" =>
        /\ MissingVariable => result = Exit(USER_ERROR)
        /\ (~MissingVariable /\ MissingField) => result = Exit(PROJECT_ERROR)
        /\ result.kind = "return" => (~MissingVariable /\ ~MissingField)

\* X = $A resolves to v, Y = {n} names a field that does not exist
C12_Witness ==
    /\ pc = "done"
    /\ be.environment = << <<<<"X">>, EnvStr(<<"$", "A">>)>>,
                           <<<<"Y">>, EnvStr(<<"{", "n", "}">>)>> >>
    /\ Get(context, <<"A">>) = <<"v">>
    /\ result = Exit(PROJECT_ERROR)
    /\ echoed = <<Line("PROJECT ERROR: Unavailable reference", <<"n">>, <<>>)>>

\* X = {n} is iterated before Y = $N: the missing variable decides
C12_VariableReached ==
    /\ pc = "done"
    /\ be.environment = << <<<<"X">>, EnvStr(<<"{", "n", "}">>)>>,
                           <<<<"Y">>, EnvStr(<<"$", "N">>)>> >>
    /\ result = Exit(USER_ERROR)

\* the mapping from str(N) to topics[N] for every position N
TopicsByPosition(t) == [i \in 1..Len(t) |-> <<IntToStr(i - 1), t[i]>>]

\* the settings hold no $NAME and no placeholder other than {N} with
\* N < len(topics)
OnlyTopicTokens ==
    \A i \in 1..Len(be.environment) :
        /\ DollarNames(SettingText(be.environment[i][2])) = {}
        /\ FieldNames(SettingText(be.environment[i][2]))
               \subseteq Keys(TopicsByPosition(topics))

\* every setting comes back with each {N} replaced by topics[N]
TopicsReplaced ==
    /\ result.kind = "return"
    /\ Len(result.dict) = Len(be.environment)
    /\ \A i \in 1..Len(be.environment) :
           /\ result.dict[i][1] = be.environment[i][1]
           /\ result.dict[i][2] =
                  SubFields(SettingText(be.environment[i][2]), 1,
                            TopicsByPosition(topics)).value

\* C13: for settings whose only tokens are {N} with 0 <= N < len(topics),
\* parse_environment returns every value with each {N} replaced by
\* topics[N], also when a topic value occurs at more than one position.
C13_TopicTokenIsNthTopic ==
    (pc = "done" /\ OnlyTopicTokens) => TopicsReplaced

\* the same for topics that are pairwise different
C13_DistinctTopicsReplaced ==
    (pc = "done" /\ OnlyTopicTokens
     /\ \A i, j \in 1..Len(topics) : topics[i] = topics[j] => i = j)
        => TopicsReplaced

\* a setting with a {N} is parsed under topics that are pairwise different
C13_DistinctTopicsReached ==
    /\ pc = "done"
    /\ topics = <<<<"t">>, <<"u">>>>
    /\ be.environment = << <<<<"X">>, EnvStr(<<"{", "1", "}", "{", "0", "}">>)>> >>
    /\ result.dict = << <<<<"X">>, <<"u", "t">>>> >>

-----------------------------------------------------------------------------
(* Specification of parse_redirect over redirect tables of up to           *)
(* MaxRedirects pairs                                                      *)

MaxRedirects == 2

\* topic positions, one of them with text after it, variables of the
\* context and a name the context does not have
RedirectSources ==
    {<<"{", "0", "}">>, <<"{", "1", "}">>, <<"{", "0", "}", "x">>, <<"A">>, <<"B">>, <<"N">>}

RedirectDests == {<<"A">>, <<"B">>, <<"D">>, <<"B", "E", "_", "P", "R", "O", "J", "E", "C", "T">>}

\* redirect.items(): the sources are the keys of the table
RedirectTables ==
    {r \in SeqsUpTo(RedirectSources \X RedirectDests, MaxRedirects) :
        \A i, j \in 1..Len(r) : r[i][1] = r[j][1] => i = j}

RedirectTopics == {<<>>, <<Spiderman>>, <<Spiderman, Peter>>}

RedirectEnvirons ==
    {<< <<<<"A">>, <<"v">>>>, <<<<"B">>, <<"w">>>> >>}

InitRedirect ==
    /\ pc = "ready"
    /\ key = <<>>
    /\ topics \in RedirectTopics
    /\ inventory = <<>>
    /\ loaded = <<>>
    /\ templates = <<>>
    /\ environ \in RedirectEnvirons
    /\ context = lib_context(environ, Cwd, <<"x">>)
    /\ item = <<>>
    /\ bindings = <<>>
    /\ result = NoResult
    /\ echoed = <<>>
    /\ be \in {[NoBe EXCEPT !.redirect = r] : r \in RedirectTables}
    /\ opts = [yes |-> FALSE, enter |-> FALSE, as_ |-> <<>>]
    /\ fs = [dirs |-> {}, cwd |-> <<>>, configured |-> FALSE, os |-> "posix"]
    /\ frame = NoFrame
    /\ launched = NotLaunched

\* parse_redirect(be.get("redirect", {}), topics, context)
ParseRedirect ==
    /\ pc = "ready"
    /\ pc' = "done"
    /\ LET r == parse_redirect(be.redirect, topics, context)
       IN  /\ result' = r.result
           /\ context' = r.context
    /\ UNCHANGED <<key, topics, inventory, loaded, templates, item, bindings,
                   echoed, cli>>

NextRedirect == ParseRedirect

SpecRedirect == InitRedirect /\ [][NextRedirect]_vars

\* every pair of the table can be served when its turn comes: its source
\* is {N} with N < len(topics), or a key the context has by then
RECURSIVE Servable(_, _, _)
Servable(table, t, ctx) ==
    \/ table = <<>>
    \/ /\ IF IsLiteralKey(table[1][1]) THEN LiteralN(table[1][1]) < Len(t)
           ELSE HasKey(ctx, table[1][1])
       /\ Servable(Tail(table), t,
                   Put(ctx, table[1][2],
                       IF IsLiteralKey(table[1][1])
                       THEN t[LiteralN(table[1][1]) + 1]
                       ELSE Get(ctx, table[1][1])))

\* the context after every pair was served in turn
RECURSIVE Redirected(_, _, _)
Redirected(table, t, ctx) ==
    IF table = <<>> THEN ctx
    ELSE Redirected(Tail(table), t,
                    Put(ctx, table[1][2],
                        IF IsLiteralKey(table[1][1])
                        THEN t[LiteralN(table[1][1]) + 1]
                        ELSE Get(ctx, table[1][1])))

\* the context parse_redirect was called with
ContextBefore == lib_context(environ, Cwd, <<"x">>)

\* C14: parse_redirect serves the pairs of the redirect table in turn; for
\* each it sets context[dest] to topics[N] when the source is {N} and to
\* context[source] otherwise, and it changes nothing else.
C14_RedirectCopiesTopicOrVariable ==
    (pc = "done" /\ Servable(be.redirect, topics, ContextBefore)) =>
        /\ result.kind = "return"
        /\ context = Redirected(be.redirect, topics, ContextBefore)
        /\ \A i \in 1..Len(be.redirect) :
               (\A j \in (i + 1)..Len(be.redirect) :
                    /\ be.redirect[j][2] # be.redirect[i][2]
                    /\ be.redirect[j][2] # be.redirect[i][1])
               => Get(context, be.redirect[i][2]) =
                      IF IsLiteralKey(be.redirect[i][1])
                      THEN topics[LiteralN(be.redirect[i][1]) + 1]
                      ELSE Get(context, be.redirect[i][1])
        /\ \A k \in Keys(ContextBefore) :
               k \notin {be.redirect[i][2] : i \in 1..Len(be.redirect)}
               => Get(context, k) = Get(ContextBefore, k)

\* scenario 3: the table {"{0}": "BE_PROJECT"} with the topics spiderman,
\* peter
C14_Witness ==
    /\ pc = "done"
    /\ be.redirect = << <<<<"{", "0", "}">>, <<"B", "E", "_", "P", "R", "O", "J", "E", "C", "T">>>> >>
    /\ topics = <<Spiderman, Peter>>
    /\ Get(ContextBefore, <<"B", "E", "_", "P", "R", "O", "J", "E", "C", "T">>) = <<"x">>
    /\ Get(context, <<"B", "E", "_", "P", "R", "O", "J", "E", "C", "T">>) = Spiderman

\* a variable is copied: {"A": "D"} leaves D = v
C14_VariableReached ==
    /\ pc = "done"
    /\ be.redirect = << <<<<"A">>, <<"D">>>> >>
    /\ ~HasKey(ContextBefore, <<"D">>)
    /\ Get(context, <<"D">>) = <<"v">>

-----------------------------------------------------------------------------
(* Claims about the order of the steps of `in` *)

\* the keys of the environment section of be.yaml
EnvironmentKeys == {be.environment[i][1] : i \in 1..Len(be.environment)}

\* C15: in the context handed to the subshell, the destination of a
\* redirect whose source is a key of the be.yaml environment section holds
\* the value that section gave the source, unless the section sets the
\* destination itself.
C15_RedirectSeesExpandedValue ==
    (launched.started /\ be.hasenv) =>
        \A i \in 1..Len(be.redirect) :
            (/\ be.redirect[i][1] \in EnvironmentKeys
             /\ be.redirect[i][2] \notin EnvironmentKeys)
            => Get(launched.env, be.redirect[i][2])
                   = Get(launched.env, be.redirect[i][1])

\* PATH is redirected to OLD and set by the environment section: the
\* subshell gets OLD with the value PATH had before the section was applied
C15_RedirectRunsFirst ==
    ~(/\ launched.started
      /\ be.hasenv
      /\ <<<<"P", "A", "T", "H">>, <<"O", "L", "D">>>> \in {be.redirect[i] : i \in 1..Len(be.redirect)}
      /\ <<"P", "A", "T", "H">> \in EnvironmentKeys
      /\ Get(launched.env, <<"O", "L", "D">>) # Get(launched.env, <<"P", "A", "T", "H">>)
      /\ Get(launched.env, <<"P", "A", "T", "H">>)
             = Cwd \o pathsep \o Get(launched.env, <<"O", "L", "D">>))

\* scenario 4: the section {PATH: "$PATH;extra"} under PATH=/usr/bin
Scenario4 ==
    /\ be.environment = << <<<<"P", "A", "T", "H">>, EnvStr(<<"$", "P", "A", "T", "H", ";", "e", "x", "t", "r", "a">>)>> >>
    /\ HasKey(context, <<"P", "A", "T", "H">>)
    /\ Get(context, <<"P", "A", "T", "H">>) = <<"/", "u", "s", "r", "/", "b", "i", "n">>

\* C16: in scenario 4 environment composition returns PATH =
\* /usr/bin;extra where os.pathsep is ";", and PATH = /usr/bin:extra where
\* it is ":", the semicolon having been replaced before $PATH was expanded.
C16_SeparatorNormalized ==
    (pc \in {"done", "composed"} /\ Scenario4) =>
        result.dict =
            << <<<<"P", "A", "T", "H">>,
                 IF pathsep = <<";">> THEN <<"/", "u", "s", "r", "/", "b", "i", "n", ";", "e", "x", "t", "r", "a">>
                 ELSE <<"/", "u", "s", "r", "/", "b", "i", "n", ":", "e", "x", "t", "r", "a">>>> >>

\* where os.pathsep is ";" the value comes back as /usr/bin;extra
C16_SemicolonPlatform ==
    (pc \in {"done", "composed"} /\ Scenario4 /\ fs.os = "nt") =>
        result.dict = << <<<<"P", "A", "T", "H">>, <<"/", "u", "s", "r", "/", "b", "i", "n", ";", "e", "x", "t", "r", "a">>>> >>

\* had _parse_environment_pathsep been applied before the expansion, the
\* claimed values would have come out
C16_WithNormalization ==
    (pc = "composed" /\ Scenario4) =>
        LET joined == _join_environment(be.environment, pathsep)
            fixed == _parse_environment_pathsep(joined, fs.os)
        IN  _resolve_environment(fixed, 1, fixed, context).result.dict =
                << <<<<"P", "A", "T", "H">>,
                     IF pathsep = <<";">> THEN <<"/", "u", "s", "r", "/", "b", "i", "n", ";", "e", "x", "t", "r", "a">>
                     ELSE <<"/", "u", "s", "r", "/", "b", "i", "n", ":", "e", "x", "t", "r", "a">>>> >>

C17_NumberBindingAsserted ==
    /\ pc = "exited"
    /\ result = Raise("AssertionError", 0, <<>>)
    /\ Get(context, <<"B", "E", "_", "B", "I", "N", "D", "I", "N", "G">>) = Num(1)
    /\ launched = NotLaunched

\* a number in the environment section is stopped by the second pass
C17_NumberSettingRaises ==
    /\ pc = "exited"
    /\ result = Raise("TypeError", 0, <<>>)
    /\ be.environment = << <<<<"V">>, EnvNum(3)>> >>
    /\ launched = NotLaunched

\* under BE_TESTING the process has entered a context with redirected and
\* composed values
C17_TestingReached ==
    /\ pc = "exited"
    /\ result = Return(<<>>)
    /\ be.hasenv
    /\ Get(environ, <<"B", "E", "_", "E", "N", "V", "I", "R", "O", "N", "M", "E", "N", "T">>) # <<>>

\* the place of a step in the body of in_
StepRank(p) ==
    CASE p = "start" -> 0
      [] p = "select" -> 1
      [] p = "devdir" -> 2
      [] p = "tempdir" -> 3
      [] p = "enter" -> 4
      [] p = "scripts" -> 5
      [] p = "aliases" -> 6
      [] p = "redirect" -> 7
      [] p = "environment" -> 8
      [] p = "launch" -> 9
      [] p = "shell" -> 10
      [] OTHER -> 11

\* the key selects no item: too few topics or a malformed key
SelectionFails ==
    /\ pc = "select"
    /\ item_from_topics(IF be.key = <<>> THEN <<"{", "1", "}">> ELSE be.key,
                        topics).kind # "return"

\* the selected item has no binding
LookupFails ==
    /\ pc = "select"
    /\ LET it == item_from_topics(IF be.key = <<>> THEN <<"{", "1", "}">> ELSE be.key,
                                  topics)
       IN  /\ it.kind = "return"
           /\ binding_from_item(bindings, inventory,
                                it.value).result.kind # "return"

\* the development directory cannot be formatted
FormattingFails ==
    /\ pc = "devdir"
    /\ (IF frame.template_syntax = POSITIONAL
        THEN pos_development_directory(bindings, templates, inventory,
                                       context, topics, item)
        ELSE fixed_development_directory(bindings, templates, inventory,
                                         topics, opts.as_,
                                         fs.cwd)).result.kind # "return"

\* a pair of the redirect table cannot be served
RedirectionFails ==
    /\ pc = "redirect"
    /\ parse_redirect(be.redirect, topics, context).result.kind # "return"

\* a setting of the environment section cannot be composed
CompositionFails ==
    /\ pc = "environment"
    /\ be.hasenv
    /\ parse_environment(be.environment, context, topics,
                         pathsep).result.kind # "return"

StepFails ==
    \/ SelectionFails
    \/ LookupFails
    \/ FormattingFails
    \/ RedirectionFails
    \/ CompositionFails

\* C18: in every run of the `in` command the steps are taken in the order
\* of the code and none is skipped, a step of selection, lookup,
\* formatting, redirection or composition that fails ends the run without a
\* subshell, nothing follows the end of the run, and the subshell is started
\* by the launch step only: no run in which one of these steps fails
\* reaches the subprocess call
C18_LaunchOnlyAfterEveryStepSucceeded ==
    [][/\ pc # "exited"
       /\ StepFails => (pc' = "exited" /\ launched' = NotLaunched)
       /\ pc' # "exited" => StepRank(pc') = StepRank(pc) + 1
       /\ launched' # launched =>
              (pc = "launch" /\ pc' = "shell" /\ launched'.started)]_vars

\* a subshell started after the item peter was selected and bound, a redirect
\* table of three pairs was served and an environment section of two
\* settings was composed
C18_Witness ==
    /\ pc = "shell"
    /\ launched.started
    /\ item = Peter
    /\ Get(launched.env, <<"B", "E", "_", "B", "I", "N", "D", "I", "N", "G">>) = <<"a", "s", "s", "e", "t">>
    /\ Get(launched.env, <<"B", "E", "_", "D", "E", "V", "E", "L", "O", "P", "M", "E", "N", "T", "D", "I", "R">>) = AssetDir
    /\ Len(be.redirect) = 3
    /\ Len(be.environment) = 2
    /\ \A k \in EnvironmentKeys : HasKey(launched.env, k)

\* each of the five steps fails in some run, and that run has no subshell
C18_SelectionFailed ==
    ~(pc = "exited" /\ key # <<>> /\ item = <<>> /\ ~launched.started
      /\ item_from_topics(key, topics).kind # "return")

C18_LookupFailed ==
    ~(pc = "exited" /\ UnknownItemSelected /\ ~launched.started)

C18_FormattingFailed ==
    ~(pc = "exited" /\ frame.binding # <<>>
      /\ frame.development_dir = <<>> /\ ~launched.started)

C18_RedirectionFailed ==
    ~(pc = "exited" /\ HasKey(context, <<"B", "E", "_", "A", "L", "I", "A", "S", "D", "I", "R">>)
      /\ Get(context, <<"B", "E", "_", "A", "L", "I", "A", "S", "D", "I", "R">>) # <<>>
      /\ result.kind = "raise" /\ result.exc \in {"KeyError", "IndexError"}
      /\ ~launched.started)

C18_CompositionFailed ==
    ~(pc = "exited" /\ HasKey(context, <<"B", "E", "_", "A", "L", "I", "A", "S", "D", "I", "R">>)
      /\ Get(context, <<"B", "E", "_", "A", "L", "I", "A", "S", "D", "I", "R">>) # <<>> /\ be.hasenv
      /\ result = Exit(PROJECT_ERROR) /\ ~launched.started)

\* the run ended in item_from_topics on a key that is not of the form {N}
MalformedKeySelected ==
    /\ pc = "exited"
    /\ key # <<>>
    /\ ~MatchKey(key)

\* the run ended in pattern_from_template: the item is bound, and the
\* templates have no pattern under the name of its binding
UnknownTemplateNamed ==
    /\ pc = "exited"
    /\ frame.binding # <<>>
    /\ frame.development_dir = <<>>
    /\ ~HasKey(templates, frame.binding)

\* C19: a malformed key selector and a binding without a pattern in the
\* templates both end the run with the exit code PROJECT_ERROR, which is
\* neither USER_ERROR nor the code 1 of a program fault
C19_ConfigurationErrorsShareOneCode ==
    /\ PROJECT_ERROR \notin {USER_ERROR, 1}
    /\ (MalformedKeySelected \/ UnknownTemplateNamed) =>
           result = Exit(PROJECT_ERROR)

\* the malformed key alone is reported with PROJECT_ERROR
C19_MalformedKeyIsProjectError ==
    MalformedKeySelected =>
        /\ result = Exit(PROJECT_ERROR)
        /\ echoed[Len(echoed)]
               = Line("be.yaml template key not recognised", <<>>, <<>>)
        /\ launched = NotLaunched

\* a run ended by a malformed key
C19_MalformedKeyReached ==
    ~(MalformedKeySelected /\ key = <<"i", "t", "e", "m">>)

\* a run ended by a binding without a pattern: it exits with the code 1
C19_UnknownTemplateExitsOne ==
    ~(/\ UnknownTemplateNamed
      /\ frame.binding = <<"a", "s", "s", "e", "t">>
      /\ result = Exit(1)
      /\ echoed[Len(echoed)] = Line("No template named", frame.binding, <<>>))
-----------------------------------------------------------------------------
(* Specification of a process that calls binding_from_item again and again *)

\* the inventories the calls are made with: in every one an item is listed
\* under one binding at most
CacheInventories ==
    {<<>>,
     << <<<<"a", "s", "s", "e", "t">>, <<Str(<<"p">>)>>>> >>,
     << <<<<"s", "h", "o", "t">>, <<Str(<<"p">>)>>>> >>,
     << <<<<"a", "s", "s", "e", "t">>, <<Str(<<"q">>), Str(<<"r">>)>>>> >>,
     << <<<<"s", "h", "o", "t">>, <<Str(<<"q">>)>>>>, <<<<"a", "s", "s", "e", "t">>, <<Str(<<"p">>)>>>> >>,
     << <<<<"s", "h", "o", "t">>, <<Str(<<"r">>)>>>> >>}

\* the items the calls are made with
CacheItems == {<<"p">>, <<"q">>, <<"r">>}

\* self.bindings = {} when the module is loaded
InitCache ==
    /\ pc = "ready"
    /\ key = <<>>
    /\ topics = <<>>
    /\ inventory = <<>>
    /\ loaded = <<>>
    /\ templates = <<>>
    /\ context = <<>>
    /\ item = <<>>
    /\ bindings = <<>>
    /\ result = NoResult
    /\ echoed = <<>>
    /\ CliIdle

\* one call; the memo cache lives on from call to call
BindingFromItem ==
    /\ pc \in {"ready", "called"}
    /\ \E inv \in CacheInventories, it \in CacheItems :
           LET b == binding_from_item(bindings, inv, it)
           IN  /\ pc' = "called"
               /\ inventory' = inv
               /\ item' = it
               /\ bindings' = b.bindings
               /\ result' = b.result
               /\ echoed' = b.echoed
    /\ UNCHANGED <<key, topics, loaded, templates, context, cli>>

NextCache == BindingFromItem

SpecCache == InitCache /\ [][NextCache]_vars

\* what the call is to give by the inventory it was made with:
\* invert_inventory(inventory)[item], or KeyError with the inverted inventory
Uncached(inv, it) ==
    LET inverted == invert_inventory(inv).inverted
    IN  IF HasKey(inverted, it) THEN Return(Get(inverted, it))
        ELSE Raise("KeyError", 0, inverted)

\* C20: after every call of a sequence of calls, the result is
\* invert_inventory(inventory)[item] for the inventory of that call, and the
\* KeyError of the unknown item exactly when the item is not in that
\* inverted inventory
C20_CacheChangesNoResult ==
    pc = "called" => result = Uncached(inventory, item)

\* a call for an item the memo cache does not hold gives the result of the
\* inventory it is made with
C20_UncachedCallAgrees ==
    [][~HasKey(bindings, item') => result' = Uncached(inventory', item')]_vars

\* a call for an item the memo cache holds gives the cached binding
C20_CachedCallRepeats ==
    [][HasKey(bindings, item') =>
          (result' = Return(Get(bindings, item')) /\ bindings' = bindings)]_vars

\* p was looked up under an inventory that binds it to asset, and is now
\* looked up under an inventory that does not list it: asset is returned
C20_StaleBindingReturned ==
    ~(/\ pc = "called"
      /\ item = <<"p">>
      /\ inventory = << <<<<"s", "h", "o", "t">>, <<Str(<<"r">>)>>>> >>
      /\ result = Return(<<"a", "s", "s", "e", "t">>))
-----------------------------------------------------------------------------
(* lib.list_template *)

\* s[a:b] of Python for 0 <= a, with b clamped to the length
Slice(s, a, b) ==
    SubSeq(s, a + 1, IF b > Len(s) THEN Len(s) ELSE b)

\* s.index(sub): the 0-based index of the first occurrence, -1 where the
\* source raises ValueError
RECURSIVE IndexFrom(_, _, _)
IndexFrom(s, sub, i) ==
    IF i + Len(sub) > Len(s) THEN -1
    ELSE IF SubSeq(s, i + 1, i + Len(sub)) = sub THEN i
    ELSE IndexFrom(s, sub, i + 1)

Index(s, sub) == IndexFrom(s, sub, 0)

\* os.path.isdir(path): a slash at the end of the path changes nothing
IsDir(dirs, path) == RStrip(path, {"/"}) \in dirs

\* the entries of `path` that os.listdir gives and os.path.isdir keeps
ListedDirs(dirs, path) ==
    LET dir == RStrip(path, {"/"})
    IN  {name \in {Slice(d, Len(dir) + 1, Len(d)) :
                       d \in {e \in dirs : StartsWith(e, dir \o <<"/">>)}} :
            Index(name, <<"/">>) = -1}

\* os.path.join(path, dirname).replace("\\", "/")
JoinPath(path, dirname) ==
    Replace(IF path[Len(path)] = "/" THEN path \o dirname
            ELSE path \o <<"/">> \o dirname, "\\", "/")

\* lines 286-324 from the pattern on: [result, trimmed_pattern, printed,
\* formatted, read, listed]; the result of a listing is left to the caller,
\* who knows the order os.listdir gives
ListPattern(pattern, t, fields, dirs, it) ==
    LET at == Index(pattern, IntToStr(Len(t) - 1))
        index_end == at + 2
        trimmed == Slice(pattern, 0, index_end)
        rest == Slice(pattern, index_end, Len(pattern))
        index_trail == Index(rest, <<"{">>)
        trail == Slice(pattern, index_end, index_end + index_trail - 1)
        whole == trimmed \o trail
        path == Format(whole, t, fields)
        quiet == [result |-> Return(<<>>), trimmed_pattern |-> trimmed,
                  printed |-> <<>>, formatted |-> FALSE, read |-> FALSE,
                  path |-> <<>>, listed |-> {}]
    IN  IF at = -1
        THEN [quiet EXCEPT !.result = Raise("ValueError", 0, <<>>),
                           !.trimmed_pattern = <<>>]
        ELSE IF FindAllWidePositional(rest, 1) = <<>>
        THEN [quiet EXCEPT !.printed = <<trimmed>>]
        ELSE IF path.kind # "return"
        THEN [quiet EXCEPT !.result = path, !.trimmed_pattern = whole,
                           !.printed = <<trimmed>>, !.formatted = TRUE]
        ELSE IF ~IsDir(dirs, path.value)
        THEN [quiet EXCEPT !.trimmed_pattern = whole,
                           !.printed = <<trimmed>>, !.formatted = TRUE,
                           !.read = TRUE]
        ELSE [quiet EXCEPT !.trimmed_pattern = whole,
                           !.printed = <<trimmed>>, !.formatted = TRUE,
                           !.read = TRUE, !.path = path.value,
                           !.listed = ListedDirs(dirs, path.value)]

\* lines 245-324: the record of ListPattern with the memo cache afterwards
\* and the lines echoed
list_template(cache, env, root, t, tmpl, inv, k, dirs) ==
    LET it == item_from_topics(IF k = <<>> THEN <<"{", "1", "}">> ELSE k, t)
        b == binding_from_item(cache, inv, it.value)
        pt == pattern_from_template(tmpl, b.result.value)
        fields == replacement_fields_from_context(
                      lib_context(env, root, t[1]))
        quiet == [result |-> Return(<<>>), trimmed_pattern |-> <<>>,
                  printed |-> <<>>, formatted |-> FALSE, read |-> FALSE,
                  path |-> <<>>, listed |-> {}, bindings |-> cache,
                  echoed |-> <<>>]
    IN  IF it.kind = "raise" /\ it.exc = "IndexError"
        THEN [quiet EXCEPT !.result = it]
        ELSE IF it.kind # "return"
        THEN [quiet EXCEPT !.result = it,
                           !.echoed = item_from_topics_echo(k)]
        ELSE IF b.result.kind # "return"
        THEN [quiet EXCEPT !.echoed = b.echoed]
        ELSE IF pt.result.kind # "return"
        THEN [quiet EXCEPT !.result = pt.result, !.bindings = b.bindings,
                           !.echoed = b.echoed \o pt.echoed]
        ELSE [bindings |-> b.bindings, echoed |-> b.echoed]
             @@ ListPattern(pt.result.value, t, fields, dirs, it.value)
-----------------------------------------------------------------------------
(* Specification of list_template over every pattern of a few tokens *)

MaxListTokens == 3

\* positional placeholders, literal text, and a literal digit
ListTokens == {<<"{", "0", "}">>, <<"/", "{", "1", "}">>, <<"/", "{", "2", "}">>, <<"/", "a">>, <<"1">>}

\* the patterns of up to MaxListTokens tokens, that of scenario 5, and one
\* with a version directory
ListPatterns ==
    {Concat(ts) : ts \in SeqsUpTo(ListTokens, MaxListTokens)}
    \cup {<<"{", "0", "}", "/", "{", "1", "}", "/", "a", "s", "s", "e", "t", "s", "/", "{", "2", "}">>, <<"{", "0", "}", "/", "v", "1", "/", "{", "1", "}", "/", "{", "2", "}">>}

\* one to three topics
ListTopics == {<<<<"p">>>>, <<<<"p">>, <<"i">>>>, <<<<"p">>, <<"i">>, <<"t">>>>}

\* the project and the item are listed under asset, or nothing is
ListInventories ==
    {<< <<<<"a", "s", "s", "e", "t">>, <<Str(<<"i">>), Str(<<"p">>)>>>> >>, <<>>}

\* the directories below the root, with two tasks below the item
ListDirectories ==
    {{},
     {<<"p">>, <<"p", "/", "i">>, <<"p", "/", "i", "/", "a">>, <<"p", "/", "i", "/", "t">>, <<"p", "/", "i", "/", "a", "/", "m">>, <<"p", "/", "i", "/", "a", "s", "s", "e", "t", "s">>,
      <<"p", "/", "i", "/", "a", "s", "s", "e", "t", "s", "/", "m">>, <<"1", "p">>, <<"1", "p", "/", "x">>, <<"p", "1">>}}

\* `locals` are the local variables of the call that the result does not
\* show
InitList ==
    /\ pc = "ready"
    /\ key \in {<<>>, <<"{", "0", "}">>}
    /\ topics \in ListTopics
    /\ inventory \in ListInventories
    /\ loaded = <<>>
    /\ templates \in {<< <<<<"a", "s", "s", "e", "t">>, p>> >> : p \in ListPatterns}
    /\ context = <<>>
    /\ item = <<>>
    /\ bindings = <<>>
    /\ result = NoResult
    /\ echoed = <<>>
    /\ environ = <<>>
    /\ be = NoBe
    /\ opts \in [absolute : BOOLEAN]
    /\ fs \in {[dirs |-> d, cwd |-> <<>>, configured |-> TRUE,
                 os |-> "posix"] : d \in ListDirectories}
    /\ frame = [trimmed_pattern |-> <<>>, printed |-> <<>>,
                formatted |-> FALSE, read |-> FALSE, path |-> <<>>]
    /\ launched = NotLaunched

\* the orders os.listdir may give the entries in
ListingOrders(names) ==
    {s \in [1..Cardinality(names) -> names] :
        \A a, b \in 1..Cardinality(names) : s[a] = s[b] => a = b}

\* one call of list_template with the root "" (relative paths)
ListTemplate ==
    /\ pc = "ready"
    /\ LET r == list_template(bindings, environ, fs.cwd, topics, templates,
                              inventory, key, fs.dirs)
       IN  /\ pc' = "done"
           /\ bindings' = r.bindings
           /\ echoed' = r.echoed
           /\ frame' = [trimmed_pattern |-> r.trimmed_pattern,
                        printed |-> r.printed, formatted |-> r.formatted,
                        read |-> r.read, path |-> r.path]
           /\ IF r.listed = {}
              THEN result' = r.result
              ELSE \E order \in ListingOrders(r.listed) :
                       result' = ReturnDict(
                           [n \in 1..Len(order) |->
                               IF opts.absolute
                               THEN JoinPath(r.path, order[n])
                               ELSE order[n]])
    /\ UNCHANGED <<key, topics, inventory, loaded, templates, context, item,
                   environ, be, opts, fs, launched>>

NextList == ListTemplate

SpecList == InitList /\ [][NextList]_vars

\* the call got as far as a pattern
PatternInHand ==
    /\ pc = "done"
    /\ item_from_topics(IF key = <<>> THEN <<"{", "1", "}">> ELSE key,
                        topics).kind = "return"
    /\ inventory # <<>>

ThePlaceholder(n) == <<"{">> \o IntToStr(n) \o <<"}">>

\* the pattern has the placeholder of the last topic given
HasLastPlaceholder(pattern, t) ==
    Index(pattern, ThePlaceholder(Len(t) - 1)) # -1

\* the 0-based index just after the placeholder of the last topic given
AfterLastPlaceholder(pattern, t) ==
    Index(pattern, ThePlaceholder(Len(t) - 1))
        + Len(ThePlaceholder(Len(t) - 1))

\* a positional placeholder remains after the placeholder of the last topic
FurtherPlaceholder(pattern, t) ==
    FindAllWidePositional(
        Slice(pattern, AfterLastPlaceholder(pattern, t), Len(pattern)),
        1) # <<>>

\* the literal text between the placeholder of the last topic and the next
\* placeholder
TailText(pattern, t) ==
    LET after == Slice(pattern, AfterLastPlaceholder(pattern, t),
                       Len(pattern))
    IN  Slice(after, 0, Index(after, <<"{">>))

\* the tail as scenario 5 gives it: without the separator that ends it
TailWithoutSeparator(pattern, t) ==
    LET text == TailText(pattern, t)
    IN  IF text # <<>> /\ text[Len(text)] = "/"
        THEN Slice(text, 0, Len(text) - 1) ELSE text

\* the pattern cut after the placeholder of the last topic, with the tail
\* when a further positional placeholder remains
ExpectedTrim(pattern, t) ==
    Slice(pattern, 0, AfterLastPlaceholder(pattern, t))
    \o (IF FurtherPlaceholder(pattern, t)
        THEN TailWithoutSeparator(pattern, t) ELSE <<>>)

\* C21: with k topics, list_template cuts the pattern just after the
\* placeholder {k-1} and, when a further positional placeholder remains,
\* adds the literal tail up to the next placeholder, for every pattern that
\* has the placeholder {k-1}
C21_PatternTruncatedAfterLastTopic ==
    (PatternInHand /\ HasLastPlaceholder(templates[1][2], topics)) =>
        frame.trimmed_pattern = ExpectedTrim(templates[1][2], topics)

\* the same for the patterns in which the digit k-1 first occurs in the
\* placeholder {k-1} and the tail is empty or ends with a separator
C21_PlainPatternTruncated ==
    (/\ PatternInHand
     /\ HasLastPlaceholder(templates[1][2], topics)
     /\ Index(templates[1][2], IntToStr(Len(topics) - 1))
            = Index(templates[1][2], ThePlaceholder(Len(topics) - 1)) + 1
     /\ (FurtherPlaceholder(templates[1][2], topics) =>
            TailText(templates[1][2], topics)
                # TailWithoutSeparator(templates[1][2], topics)
            \/ TailText(templates[1][2], topics) = <<>>))
    => frame.trimmed_pattern = ExpectedTrim(templates[1][2], topics)

\* scenario 5
C21_Scenario5 ==
    ~(/\ pc = "done"
      /\ templates[1][2] = <<"{", "0", "}", "/", "{", "1", "}", "/", "a", "s", "s", "e", "t", "s", "/", "{", "2", "}">>
      /\ topics = <<<<"p">>, <<"i">>>>
      /\ frame.trimmed_pattern = <<"{", "0", "}", "/", "{", "1", "}", "/", "a", "s", "s", "e", "t", "s">>
      /\ result = ReturnDict(<<<<"m">>>>))

\* a version directory before the placeholder of the last topic: the
\* pattern is cut inside "v1"
C21_CutAtLiteralDigit ==
    ~(/\ pc = "done"
      /\ templates[1][2] = <<"{", "0", "}", "/", "v", "1", "/", "{", "1", "}", "/", "{", "2", "}">>
      /\ topics = <<<<"p">>, <<"i">>>>
      /\ key = <<>>
      /\ inventory # <<>>)

\* the selected item is not in the inventory
ItemNotListed ==
    /\ pc = "done"
    /\ item_from_topics(IF key = <<>> THEN <<"{", "1", "}">> ELSE key,
                        topics).kind = "return"
    /\ inventory = <<>>

\* the empty list, with nothing formatted and nothing read
NothingListed ==
    /\ result = Return(<<>>)
    /\ ~frame.formatted
    /\ ~frame.read

\* C22: when no positional placeholder follows the placeholder of the last
\* topic given, list_template returns the empty list without formatting the
\* pattern or reading the filesystem; it returns the empty list too when
\* the selected item is not in the inventory
C22_CompleteChainListsNothing ==
    /\ (/\ PatternInHand
        /\ HasLastPlaceholder(templates[1][2], topics)
        /\ ~FurtherPlaceholder(templates[1][2], topics)) => NothingListed
    /\ ItemNotListed => NothingListed

\* the same for the patterns in which the digit k-1 first occurs in the
\* placeholder {k-1}
C22_PlainCompleteChainListsNothing ==
    /\ (/\ PatternInHand
        /\ HasLastPlaceholder(templates[1][2], topics)
        /\ Index(templates[1][2], IntToStr(Len(topics) - 1))
               = Index(templates[1][2], ThePlaceholder(Len(topics) - 1)) + 1
        /\ ~FurtherPlaceholder(templates[1][2], topics)) => NothingListed
    /\ ItemNotListed => NothingListed

\* a complete chain over a tree that has the directory, and an item that
\* is not listed
C22_CompleteChainReached ==
    ~(/\ PatternInHand
      /\ templates[1][2] = <<"{", "0", "}", "/", "{", "1", "}", "/", "a">>
      /\ topics = <<<<"p">>, <<"i">>>>
      /\ fs.dirs # {}
      /\ NothingListed)

C22_ItemNotListedReached ==
    ~(ItemNotListed /\ fs.dirs # {} /\ NothingListed
      /\ templates[1][2] = <<"{", "0", "}", "/", "{", "1", "}", "/", "{", "2", "}">>)

\* the digit of the last topic ahead of its placeholder: the pattern is
\* formatted and the filesystem is read
C22_FormattedAfterLiteralDigit ==
    ~(/\ PatternInHand
      /\ templates[1][2] = <<"1", "{", "0", "}", "/", "{", "1", "}">>
      /\ topics = <<<<"p">>, <<"i">>>>
      /\ frame.formatted
      /\ frame.read
      /\ result = ReturnDict(<<<<"x">>>>))

\* the keys of a space-separated list
ListedKeys(s) == {Split(s, " ")[i] : i \in 1..Len(Split(s, " "))}

\* the value parse_environment gives the key k of the section, parsed in
\* the context ctx
ParsedValue(ctx, k) ==
    Get(parse_environment(be.environment, ctx, topics, pathsep).result.dict,
        k)

\* the step that merges the section: BE_ENVIRONMENT lists exactly the keys
\* of the section, and each key holds its parsed value
SectionMerged ==
    (pc = "environment" /\ be.hasenv /\ pc' = "launch") =>
        /\ ListedKeys(Get(context', <<"B", "E", "_", "E", "N", "V", "I", "R", "O", "N", "M", "E", "N", "T">>)) = EnvironmentKeys
        /\ \A k \in EnvironmentKeys :
               Get(context', k) = ParsedValue(context, k)

\* the step that starts the subshell hands the keys in Ks over as merged
HandedOver(Ks) ==
    (pc = "launch" /\ pc' = "shell" /\ be.hasenv) =>
        /\ Get(launched'.env, <<"B", "E", "_", "E", "N", "V", "I", "R", "O", "N", "M", "E", "N", "T">>)
               = Get(context, <<"B", "E", "_", "E", "N", "V", "I", "R", "O", "N", "M", "E", "N", "T">>)
        /\ \A k \in Ks : Get(launched'.env, k) = Get(context, k)

\* C23: after the environment section of be.yaml is processed,
\* BE_ENVIRONMENT is the space-separated list of exactly its keys, and for
\* each key the context handed to the subshell holds the parsed value, in
\* place of any inherited, computed or redirected value of that key
C23_SectionOverridesContext ==
    [][SectionMerged /\ HandedOver(EnvironmentKeys)]_vars

\* the same for every key of the section but BE_SHELL
C23_SectionOverridesButShell ==
    [][SectionMerged /\ HandedOver(EnvironmentKeys \ {<<"B", "E", "_", "S", "H", "E", "L", "L">>})]_vars

\* the section sets BE_USER, which be computed, and BE_SHELL: the subshell
\* gets the BE_USER of the section and the BE_SHELL of be
C23_ShellOverwritten ==
    ~(/\ launched.started
      /\ <<"B", "E", "_", "S", "H", "E", "L", "L">> \in EnvironmentKeys
      /\ Get(launched.env, <<"B", "E", "_", "U", "S", "E", "R">>) = <<"b", "o", "s", "s">>
      /\ Get(launched.env, <<"B", "E", "_", "S", "H", "E", "L", "L">>) = <<"/", "b", "i", "n", "/", "b", "a", "s", "h">>
      /\ ListedKeys(Get(launched.env, <<"B", "E", "_", "E", "N", "V", "I", "R", "O", "N", "M", "E", "N", "T">>))
             = {<<"B", "E", "_", "S", "H", "E", "L", "L">>, <<"B", "E", "_", "U", "S", "E", "R">>})

\* the section sets WHO, which a redirect had set, and PATH, which was
\* inherited
C23_RedirectedOverridden ==
    ~(/\ launched.started
      /\ Len(be.redirect) = 3
      /\ Get(launched.env, <<"W", "H", "O">>) = User \o <<"/">> \o Peter
      /\ Get(launched.env, <<"B", "E", "_", "E", "N", "V", "I", "R", "O", "N", "M", "E", "N", "T">>) \in {<<"W", "H", "O", " ", "P", "A", "T", "H">>, <<"P", "A", "T", "H", " ", "W", "H", "O">>})

\* the value of the i-th setting after the first and the second pass
AfterVariables(i) ==
    SubDollar(SettingText(be.environment[i][2]), 1, context).value

\* every setting is a string or a list of strings
TextSettings ==
    \A i \in 1..Len(be.environment) : IsString(be.environment[i][2].s)

\* after the second pass some setting holds a {key} whose key is not in the
\* merged mapping
MissingFieldAfterVariables ==
    \E i \in 1..Len(be.environment) :
        ~(FieldNames(AfterVariables(i)) \subseteq MergedKeys(context, topics))

\* C24: parse_environment joins the lists, then expands $NAME in every
\* setting, then expands {name} and {N} in every setting: a missing
\* variable in any setting is fatal before any field is looked at, a
\* {name} brought in by the value of a variable is expanded or is fatal,
\* and a $NAME brought in by the value of a field or topic stays as text
C24_ThreePassesInOrder ==
    (pc = "done" /\ TextSettings) =>
        /\ MissingVariable => result = Exit(USER_ERROR)
        /\ (~MissingVariable /\ MissingFieldAfterVariables) =>
               result = Exit(PROJECT_ERROR)
        /\ (~MissingVariable /\ ~MissingFieldAfterVariables) =>
               /\ result.kind = "return"
               /\ Len(result.dict) = Len(be.environment)
               /\ \A i \in 1..Len(be.environment) :
                      /\ result.dict[i][1] = be.environment[i][1]
                      /\ result.dict[i][2] =
                             SubFields(AfterVariables(i), 1,
                                       SourceDict(context, topics)).value

\* X = [$A, {a}] under A = {1}, BE_A = $N and the topics t, u on a posix
\* host: the {1} that $A brought in is expanded to u, the $N that {a}
\* brought in stays
C24_Witness ==
    /\ pc = "done"
    /\ be.environment = << <<<<"X">>, EnvList(<<<<"$", "A">>, <<"{", "a", "}">>>>)>> >>
    /\ Get(context, <<"A">>) = <<"{", "1", "}">>
    /\ Get(context, <<"B", "E", "_", "A">>) = <<"$", "N">>
    /\ topics = <<<<"t">>, <<"u">>>>
    /\ fs.os = "posix"
    /\ result = ReturnDict(<< <<<<"X">>, <<"u", ":", "$", "N">>>> >>)

\* X = $A under A = {n}: the field that $A brought in is fatal
C24_BroughtInFieldFatal ==
    ~(/\ pc = "done"
      /\ be.environment = << <<<<"X">>, EnvStr(<<"$", "A">>)>> >>
      /\ Get(context, <<"A">>) = <<"{", "n", "}">>
      /\ result = Exit(PROJECT_ERROR))

\* X = {0} under the topics $N, {n}: the topic is put in as it is
C24_TopicTextStays ==
    ~(/\ pc = "done"
      /\ be.environment = << <<<<"X">>, EnvStr(<<"{", "0", "}">>)>> >>
      /\ topics = <<<<"$", "N">>, <<"{", "n", "}">>>>
      /\ result = ReturnDict(<< <<<<"X">>, <<"$", "N">>>> >>))

\* the mapping the third pass looks its keys up in
MergedMapping == SourceDict(context, topics)

\* the fields that the BE_ variables of the context give
PrefixMapping == replacement_fields_from_context(context)

C25_RepeatedIndexFromField ==
    ~(/\ pc = "done"
      /\ topics = <<<<"t">>, <<"t">>>>
      /\ HasKey(PrefixMapping, <<"1">>)
      /\ Get(MergedMapping, <<"1">>) = <<"y">>
      /\ be.environment = << <<<<"X">>, EnvStr(<<"{", "1", "}">>)>> >>
      /\ result = ReturnDict(<< <<<<"X">>, <<"y">>>> >>))

\* C26: the memo cache only grows: a call leaves every entry as it was, a
\* call for an item that has an entry returns the binding of the entry,
\* and a call that fails with KeyError leaves the cache as it was
C26_CacheIsAppendOnly ==
    [][/\ \A i \in 1..Len(bindings) :
              /\ HasKey(bindings', bindings[i][1])
              /\ Get(bindings', bindings[i][1]) = bindings[i][2]
       /\ HasKey(bindings, item') =>
              result' = Return(Get(bindings, item'))
       /\ result'.kind = "raise" => bindings' = bindings
       /\ result'.kind = "return" =>
              (HasKey(bindings', item')
               /\ Get(bindings', item') = result'.value)]_vars

\* p has the entry asset and is looked up with an inventory that lists it
\* under shot: asset is returned and the entry stays, next to an entry
\* for q
C26_Witness ==
    /\ pc = "called"
    /\ item = <<"p">>
    /\ inventory = << <<<<"s", "h", "o", "t">>, <<Str(<<"p">>)>>>> >>
    /\ result = Return(<<"a", "s", "s", "e", "t">>)
    /\ HasKey(bindings, <<"p">>)
    /\ Get(bindings, <<"p">>) = <<"a", "s", "s", "e", "t">>
    /\ HasKey(bindings, <<"q">>)

\* a lookup that failed while the cache held entries
C26_FailedLookupReached ==
    ~(/\ pc = "called"
      /\ result.kind = "raise"
      /\ result.exc = "KeyError"
      /\ Len(bindings) = 2
      /\ ~HasKey(bindings, item))

\* the id of an item as the inventory writes it: the key of a one-key
\* mapping or the scalar, a number in its decimal form
ItemId(it) == IF it.num THEN IntToStr(it.n) ELSE it.s

\* the ids of the items listed under the m-th binding
IdsUnder(inv, m) == {ItemId(inv[m][2][i]) : i \in 1..Len(inv[m][2])}

\* C27: invert_inventory loses no item and invents none: the keys of its
\* result are exactly the ids of the items of the inventory, each once,
\* and every id is mapped to a binding that lists an item of that id
C27_NoItemLost ==
    pc = "inverted" =>
        /\ result.kind = "return"
        /\ Keys(result.dict) = UNION {IdsUnder(inventory, m) :
                                         m \in 1..Len(inventory)}
        /\ DistinctKeys(result.dict)
        /\ \A i \in 1..Len(result.dict) :
               \E m \in 1..Len(inventory) :
                   /\ inventory[m][1] = result.dict[i][2]
                   /\ result.dict[i][1] \in IdsUnder(inventory, m)

\* a string, a number and a mapping with a number as its key under two
\* bindings: the ids p and 1
C27_Witness ==
    /\ pc = "inverted"
    /\ Len(inventory) = 2
    /\ inventory[1][2] = <<[isdict |-> FALSE, num |-> FALSE, s |-> <<"p">>,
                            n |-> 0],
                           [isdict |-> FALSE, num |-> TRUE, s |-> <<>>,
                            n |-> 1]>>
    /\ inventory[2][2] = <<[isdict |-> TRUE, num |-> TRUE, s |-> <<>>,
                            n |-> 1]>>
    /\ Keys(result.dict) = {<<"p">>, <<"1">>}
    /\ Get(result.dict, <<"1">>) = inventory[1][1]
-----------------------------------------------------------------------------
(* Specification of the two development directory functions over patterns, *)
(* topics, field values, a working directory and a user name that hold      *)
(* backslashes                                                              *)

MaxDirTokens == 3

DirTokens ==
    {<<"{", "0", "}">>, <<"{", "a", "}">>, <<"{", "c", "w", "d", "}">>, <<"{", "i", "t", "e", "m", "}">>, <<"{", "t", "a", "s", "k", "}">>, <<"/">>, <<"\\">>}

DirPatterns == {Concat(ts) : ts \in SeqsUpTo(DirTokens, MaxDirTokens)}

\* one topic that splits in three, plain, with backslashes in project and
\* task, and with a backslash in the item; one topic that does not split
DirTopics ==
    {<<<<"s", "/", "p", "/", "m">>>>,
     <<<<"s", "\\", "x", "/", "p", "/", "m", "\\", "y">>>>,
     <<<<"s", "/", "p", "\\", "q", "/", "m">>>>,
     <<<<"t", "\\", "0">>>>}

\* the items p and p\q are bound to "a"
DirInventory ==
    << <<<<"a">>, <<ItemP, Str(<<"p", "\\", "q">>)>>>> >>

\* os.getcwd() and the user name
DirPlaces ==
    {[cwd |-> <<"/", "w">>, user |-> <<"u">>],
     [cwd |-> <<"c", ":", "\\", "w">>, user |-> <<"u", "\\", "v">>]}

InitDir ==
    /\ pc = "ready"
    /\ key = <<>>
    /\ topics \in DirTopics
    /\ inventory = DirInventory
    /\ loaded = <<>>
    /\ templates \in {<< <<<<"a">>, p>> >> : p \in DirPatterns}
    /\ context \in PosContexts
    /\ item = <<"p">>
    /\ bindings = <<>>
    /\ result = NoResult
    /\ echoed = <<>>
    /\ environ = <<>>
    /\ be = NoBe
    /\ \E place \in DirPlaces :
           /\ opts = [yes |-> FALSE, enter |-> FALSE, as_ |-> place.user]
           /\ fs = [dirs |-> {}, cwd |-> place.cwd, configured |-> TRUE,
                    os |-> "posix"]
    /\ frame = NoFrame
    /\ launched = NotLaunched

FixedDevelopmentDirectory ==
    /\ pc = "ready"
    /\ pc' = "fixed"
    /\ LET r == fixed_development_directory(bindings, templates, inventory,
                                            topics, opts.as_, fs.cwd)
       IN  /\ result' = r.result
           /\ bindings' = r.bindings
           /\ echoed' = r.echoed
    /\ UNCHANGED <<key, topics, inventory, loaded, templates, context, item, cli>>

NextDir == PosDevelopmentDirectory \/ FixedDevelopmentDirectory

SpecDir == InitDir /\ [][NextDir]_vars

\* the characters of a string
Range(s) == {s[i] : i \in 1..Len(s)}

\* a backslash among the inputs of the call that was made
BackslashGiven ==
    \/ "\\" \in Range(templates[1][2])
    \/ "\\" \in Range(topics[1])
    \/ pc = "done" /\ "\\" \in Range(Get(context, <<"B", "E", "_", "A">>))
    \/ pc = "fixed" /\ "\\" \in Range(fs.cwd)

\* C28: a path returned by pos_development_directory or by
\* fixed_development_directory holds no backslash, whatever backslashes
\* the pattern, the topics, the field values or the working directory held
C28_NoBackslashReturned ==
    (pc \in {"done", "fixed"} /\ result.kind = "return")
        => "\\" \notin Range(result.value)

\* the positional function returned a path made of a pattern, a topic and
\* a field value that each held a backslash
C28_Witness ==
    /\ pc = "done"
    /\ result.kind = "return"
    /\ templates[1][2] = <<"{", "0", "}">> \o <<"\\">> \o <<"{", "a", "}">>
    /\ "\\" \in Range(topics[1])
    /\ "\\" \in Range(Get(context, <<"B", "E", "_", "A">>))
    /\ result.value = <<"s", "/", "x", "/", "p", "/", "m", "/", "y", "/", "v", "/">>

\* the fixed function returned a path made of a pattern, an item and a
\* working directory that each held a backslash
C28_FixedReached ==
    ~(/\ pc = "fixed"
      /\ result.kind = "return"
      /\ templates[1][2] = <<"{", "c", "w", "d", "}">> \o <<"\\">> \o <<"{", "i", "t", "e", "m", "}">>
      /\ "\\" \in Range(topics[1])
      /\ "\\" \in Range(fs.cwd)
      /\ result.value = <<"c", ":", "/", "w", "/", "p", "/", "q">>)

\* the positional function returned a path from inputs with backslashes
C28_PositionalReached ==
    ~(pc = "done" /\ result.kind = "return" /\ BackslashGiven)

\* `in` is refused: with BE_ACTIVE in the environment of the process its
\* first step exits with USER_ERROR, nothing loaded and nothing launched
RefusedWhenActive ==
    (pc = "start" /\ HasKey(environ, <<"B", "E", "_", "A", "C", "T", "I", "V", "E">>))
        => /\ pc' = "exited"
           /\ result' = Exit(USER_ERROR)
           /\ templates' = <<>>
           /\ context' = <<>>
           /\ frame' = NoFrame
           /\ fs' = fs
           /\ launched' = NotLaunched

\* the context handed to the subshell holds the key BE_ACTIVE
LaunchedActive ==
    launched'.started => HasKey(launched'.env, <<"B", "E", "_", "A", "C", "T", "I", "V", "E">>)

\* C29: contexts cannot be nested: with BE_ACTIVE in the environment `in`
\* exits with USER_ERROR before it loads a configuration or launches a
\* subshell, and every context handed to a subshell holds BE_ACTIVE, also
\* after the redirect table and the environment section were applied
C29_ContextsCannotNest ==
    [][RefusedWhenActive /\ LaunchedActive]_vars

\* a subshell was launched on a context that went through a redirect
\* table and an environment section and holds BE_ACTIVE
C29_Witness ==
    /\ launched.started
    /\ be.redirect # <<>>
    /\ be.hasenv
    /\ be.environment # <<>>
    /\ Get(launched.env, <<"B", "E", "_", "E", "N", "V", "I", "R", "O", "N", "M", "E", "N", "T">>) # <<>>
    /\ HasKey(launched.env, <<"B", "E", "_", "A", "C", "T", "I", "V", "E">>)
    /\ Get(launched.env, <<"B", "E", "_", "A", "C", "T", "I", "V", "E">>) = <<"1">>

\* `in` was issued with BE_ACTIVE in the environment and was refused
C29_RefusedReached ==
    ~(/\ pc = "exited"
      /\ HasKey(environ, <<"B", "E", "_", "A", "C", "T", "I", "V", "E">>)
      /\ result = Exit(USER_ERROR)
      /\ context = <<>>
      /\ ~launched.started)

\* `in` made the temporary directory itself and has terminated
EndedWithOwnTempdir == pc = "exited" /\ frame.owned

\* C30: a temporary directory that `in` made itself (BE_TEMPDIR not set)
\* is removed by the time `in` terminates, on every exit path after its
\* creation: the subshell exits, the user cancels the creation of the
\* development directory, redirection or composition fails
C30_OwnTempdirRemoved ==
    EndedWithOwnTempdir => frame.tempdir \notin fs.dirs

\* after the subshell has exited the temporary directory is gone
C30_RemovedAfterSubshell ==
    (EndedWithOwnTempdir /\ launched.started) => frame.tempdir \notin fs.dirs

\* the subshell exited and the temporary directory `in` made is gone
C30_SubshellExitReached ==
    ~(/\ EndedWithOwnTempdir
      /\ launched.started
      /\ result.kind = "exit"
      /\ frame.tempdir = MadeTempdir
      /\ MadeTempdir \notin fs.dirs)

\* the user answered n at the prompt: `in` exits with NORMAL and the
\* temporary directory it made is still there
C30_LeftAfterCancel ==
    ~(/\ EndedWithOwnTempdir
      /\ opts.enter /\ ~opts.yes
      /\ frame.development_dir \notin fs.dirs
      /\ result = Exit(NORMAL)
      /\ ~launched.started
      /\ MadeTempdir \in fs.dirs)

\* redirection failed: the temporary directory `in` made is still there
C30_LeftAfterRedirection ==
    ~(/\ EndedWithOwnTempdir
      /\ Get(context, <<"B", "E", "_", "A", "L", "I", "A", "S", "D", "I", "R">>) # <<>>
      /\ result.kind = "raise" /\ result.exc \in {"KeyError", "IndexError"}
      /\ ~launched.started
      /\ MadeTempdir \in fs.dirs)

\* composition of the environment failed: the temporary directory `in`
\* made is still there
C30_LeftAfterComposition ==
    ~(/\ EndedWithOwnTempdir
      /\ Get(context, <<"B", "E", "_", "A", "L", "I", "A", "S", "D", "I", "R">>) # <<>>
      /\ be.hasenv
      /\ result = Exit(PROJECT_ERROR)
      /\ ~launched.started
      /\ MadeTempdir \in fs.dirs)

====
